---- MODULE Spec2Model ----
(***************************************************************************)
(* Model of the Slurm reconciliation scripts of vsc-administration:        *)
(*   lib/vsc/administration/slurm/sync.py      (the account/user/QoS       *)
(*                                              reconcilers)               *)
(*   bin/sync_slurm_tier1_projects.py          (the project plan and its   *)
(*                                              execution)                 *)
(*   bin/sync_slurm_external_licenses.py       (license resources and      *)
(*                                              license reservations)      *)
(*   bin/sync_slurm_acct.py                    (the account sync, with     *)
(*                                              reconcilers of its own)    *)
(*                                                                         *)
(* Strings that the code concatenates or tests with startswith are         *)
(* sequences of tokens ("mycluster" is <<"my", "cluster">>, so that "my"   *)
(* is a string prefix of it); all other strings are TLA+ strings.  A       *)
(* command (an argv list in the code) is a record with one field per       *)
(* argument the builders can emit.  Iterating a Python set visits its      *)
(* elements in an order the program does not control: a reconciler is      *)
(* therefore the SET of command lists it can return, and a run picks one.  *)
(***************************************************************************)
EXTENDS Integers, Sequences, FiniteSets, TLC

VARIABLES
    script,               \* which script's main() this run is ("accounts":
                          \* the account reconcilers of sync.py on their own)
    pc,                   \* position in main(): "start", "exec" or
                          \* "acct_exec", "done"
    dry_run,              \* opts.dry_run
    opts,                 \* the other command-line options of the script
    clusters,             \* the list of clusters to sync
    projects,             \* desired projects (list of ProjectIniConfig)
    account_page_vos,     \* desired VOs (list of VO records with their members)
    active_accounts,      \* active VSC account ids
    slurm_qos_info,       \* observed QoS names (sacctmgr list qos)
    slurm_account_info,   \* observed accounts (sacctmgr list accounts)
    slurm_user_info,      \* observed user associations (sacctmgr list users)
    protected_accounts,   \* accounts never removed
    licenses,             \* desired licenses (the dict licenses_data returns)
    resources,            \* observed resources (sacctmgr list resource)
    scontrol,             \* observed scontrol state: config, partitions,
                          \* licenses and reservations
    listing,              \* a sacctmgr or scontrol listing handed to a parser
    all_extern_data,      \* the license configuration (the JSON file)
    probe,                \* what the license tool answers for each server
    parsed,               \* what the parser returned for the listing
    out,                  \* the command lists the reconcilers returned
    plan,                 \* the assembled command list of this run
    n_executed,           \* how many commands of plan execute_commands has run
    exit_code,            \* "none" while running, then how the script ended
    run,                  \* number of this run on the same snapshots
    prev_plan             \* the plan of the previous run on the same snapshots

\* what a run reads and never assigns
inputs == <<script, dry_run, opts, clusters, projects, account_page_vos, active_accounts,
            slurm_qos_info, slurm_account_info, slurm_user_info, protected_accounts,
            resources, scontrol, listing, all_extern_data, probe>>

vars == <<inputs, pc, licenses, parsed, out, plan, n_executed, exit_code, run, prev_plan>>

----------------------------------------------------------------------------
(* Bounds of the model.                                                    *)

MaxHours == 1
MaxRuns == 2
MaxFairshare == 2
MaxCount == 2
MaxLic == 2

----------------------------------------------------------------------------
(* Generic helpers.                                                        *)

Range(s) == {s[i] : i \in DOMAIN s}

\* str.startswith
startswith(s, prefix) ==
    /\ Len(prefix) <= Len(s)
    /\ SubSeq(s, 1, Len(prefix)) = prefix

Max(a, b) == IF a >= b THEN a ELSE b

RECURSIVE Flatten(_)
Flatten(ss) == IF ss = <<>> THEN <<>> ELSE Head(ss) \o Flatten(Tail(ss))

\* The orders in which iterating the set S can visit its elements.
IterationOrders(S) ==
    {o \in [1..Cardinality(S) -> S] : \A i, j \in 1..Cardinality(S) : i # j => o[i] # o[j]}

\* Loop over a list where each iteration can yield several results:
\* every concatenation of one result per iteration.
RECURSIVE ConcatChoices(_)
ConcatChoices(ss) ==
    IF ss = <<>> THEN {<<>>}
    ELSE {h \o t : h \in Head(ss), t \in ConcatChoices(Tail(ss))}

----------------------------------------------------------------------------
(* Names.  A cluster name and a QoS name are token sequences.              *)

CL_MYCLUSTER == <<"my", "cluster">>
CL_MY == <<"my">>

GENT == "gent"

SLURM_SACCT_MGR == "/usr/bin/sacctmgr"
SLURM_SCANCEL == "/usr/bin/scancel"

\* sync.py SLURM_ORGANISATIONS
SLURM_ORGANISATIONS ==
    [i \in {"antwerpen", "brussel", "gent", "leuven"} |->
        CASE i = "antwerpen" -> "uantwerpen"
          [] i = "brussel" -> "vub"
          [] i = "gent" -> "ugent"
          [] i = "leuven" -> "kuleuven"]

TIER1_GPU_TO_CPU_HOURS_RATE == 12

\* "{cluster}-{project_name}".format(...)
qos_name_of(cluster, project_name) == cluster \o <<"-", project_name>>

----------------------------------------------------------------------------
(* Commands.  NoCmd holds the absent value of every argument.              *)

NoCmd ==
    [tool |-> "", verb |-> "", entity |-> "",
     account |-> "", parent |-> "", org |-> "", cluster |-> <<>>,
     fairshare |-> -1, qos |-> <<>>,
     user |-> "", default_account |-> "", state |-> "",
     cpuminutes |-> -1, gpuminutes |-> -1,
     name |-> "", server |-> "", stype |-> "", clusters |-> <<>>, count |-> -1,
     reservation |-> <<>>, licenses |-> <<>>, value |-> -1, partition |-> ""]

\* sync.py create_add_account_command; parent "" stands for None
\* (qos <<>> and fairshare -1 stand for None as well).
create_add_account_command(account, parent, organisation, cluster, fairshare, qos) ==
    [NoCmd EXCEPT !.tool = SLURM_SACCT_MGR, !.verb = "add", !.entity = "account",
                  !.account = account,
                  !.parent = IF parent = "" THEN "root" ELSE parent,
                  !.org = SLURM_ORGANISATIONS[organisation],
                  !.cluster = cluster,
                  !.fairshare = fairshare,
                  !.qos = qos]

create_change_account_fairshare_command(account, cluster, fairshare) ==
    [NoCmd EXCEPT !.tool = SLURM_SACCT_MGR, !.verb = "modify", !.entity = "account",
                  !.account = account, !.cluster = cluster, !.fairshare = fairshare]

\* default_account "" stands for None
create_add_user_command(user, account, cluster, default_account) ==
    [NoCmd EXCEPT !.tool = SLURM_SACCT_MGR, !.verb = "add", !.entity = "user",
                  !.user = user, !.account = account, !.cluster = cluster,
                  !.default_account = IF default_account # "" THEN account ELSE ""]

create_default_account_command(user, account, cluster) ==
    [NoCmd EXCEPT !.tool = SLURM_SACCT_MGR, !.verb = "modify", !.entity = "user",
                  !.user = user, !.cluster = cluster, !.default_account = account]

create_remove_user_command(user, cluster) ==
    [NoCmd EXCEPT !.tool = SLURM_SACCT_MGR, !.verb = "delete", !.entity = "user",
                  !.user = user, !.cluster = cluster]

\* state "" and account "" stand for None
create_remove_user_jobs_command(user, cluster, state, account) ==
    [NoCmd EXCEPT !.tool = SLURM_SCANCEL, !.verb = "scancel",
                  !.cluster = cluster, !.user = user,
                  !.state = state, !.account = account]

create_remove_jobs_for_account_command(account, cluster) ==
    << [NoCmd EXCEPT !.tool = SLURM_SCANCEL, !.verb = "scancel",
                     !.cluster = cluster, !.account = account, !.state = "PENDING"],
       [NoCmd EXCEPT !.tool = SLURM_SCANCEL, !.verb = "scancel",
                     !.cluster = cluster, !.account = account, !.state = "SUSPENDED"] >>

create_remove_account_command(account, cluster) ==
    [NoCmd EXCEPT !.tool = SLURM_SACCT_MGR, !.verb = "delete", !.entity = "account",
                  !.account = account, !.cluster = cluster]

create_remove_user_account_command(user, account, cluster) ==
    [NoCmd EXCEPT !.tool = SLURM_SACCT_MGR, !.verb = "delete", !.entity = "user",
                  !.user = user, !.account = account, !.cluster = cluster]

\* the four commands that move a user from current_vo_id to new_vo_id
create_change_user_command(user, current_vo_id, new_vo_id, cluster) ==
    << create_add_user_command(user, new_vo_id, cluster, ""),
       create_default_account_command(user, new_vo_id, cluster),
       create_remove_user_jobs_command(user, cluster, "", current_vo_id),
       [NoCmd EXCEPT !.tool = SLURM_SACCT_MGR, !.verb = "delete", !.entity = "user",
                     !.user = user, !.account = current_vo_id, !.cluster = cluster] >>

create_add_qos_command(name) ==
    [NoCmd EXCEPT !.tool = SLURM_SACCT_MGR, !.verb = "add", !.entity = "qos", !.qos = name]

create_remove_qos_command(name) ==
    [NoCmd EXCEPT !.tool = SLURM_SACCT_MGR, !.verb = "remove", !.entity = "qos", !.qos = name]

\* settings is the GRPTRESMins pair <<cpuminutes, gpuminutes>>
create_modify_qos_command(name, settings) ==
    [NoCmd EXCEPT !.tool = SLURM_SACCT_MGR, !.verb = "modify", !.entity = "qos", !.qos = name,
                  !.cpuminutes = settings[1], !.gpuminutes = settings[2]]

----------------------------------------------------------------------------
(* sync.py: the project reconcilers.                                       *)

get_cluster_accounts(account_info, cluster) ==
    LET on_cluster == {acct \in account_info : acct.Cluster = cluster}
    IN [a \in {acct.Account : acct \in on_cluster} |->
            (CHOOSE acct \in on_cluster : acct.Account = a).Share]

get_cluster_qos(qos_info, cluster) ==
    {name \in qos_info : startswith(name, cluster)}

\* the GPU minutes of a QoS without the floor of one minute
slurm_project_qos_cluster_no_floor(projs, qos_info, cluster) ==
    LET cluster_qos_names == get_cluster_qos(qos_info, cluster)
        project_qos_names == {qos_name_of(cluster, projs[i].name) : i \in DOMAIN projs}
        for_project(project) ==
            LET qos_name == qos_name_of(cluster, project.name)
            IN (IF qos_name \notin cluster_qos_names
                   THEN <<create_add_qos_command(qos_name)>> ELSE <<>>)
               \o <<create_modify_qos_command(qos_name,
                       <<60 * project.cpu_hours
                            + TIER1_GPU_TO_CPU_HOURS_RATE * 60 * project.gpu_hours,
                         60 * project.gpu_hours>>)>>
        add_modify == Flatten([i \in DOMAIN projs |-> for_project(projs[i])])
    IN {add_modify \o [i \in DOMAIN o |-> create_remove_qos_command(o[i])] :
            o \in IterationOrders(cluster_qos_names \ project_qos_names)}

\* one iteration of the loop over clusters in slurm_project_qos
slurm_project_qos_cluster(projs, qos_info, cluster) ==
    LET cluster_qos_names == get_cluster_qos(qos_info, cluster)
        project_qos_names == {qos_name_of(cluster, projs[i].name) : i \in DOMAIN projs}
        for_project(project) ==
            LET qos_name == qos_name_of(cluster, project.name)
            IN (IF qos_name \notin cluster_qos_names
                   THEN <<create_add_qos_command(qos_name)>> ELSE <<>>)
               \o <<create_modify_qos_command(qos_name,
                       <<60 * project.cpu_hours
                            + TIER1_GPU_TO_CPU_HOURS_RATE * 60 * project.gpu_hours,
                         Max(1, 60 * project.gpu_hours)>>)>>
        add_modify == Flatten([i \in DOMAIN projs |-> for_project(projs[i])])
    IN {add_modify \o [i \in DOMAIN o |-> create_remove_qos_command(o[i])] :
            o \in IterationOrders(cluster_qos_names \ project_qos_names)}

slurm_project_qos(projs, qos_info, cls) ==
    ConcatChoices([i \in DOMAIN cls |-> slurm_project_qos_cluster(projs, qos_info, cls[i])])

\* the accounts removed without cancelling their jobs
slurm_project_accounts_cluster_no_cancel(projs, account_info, cluster, protected) ==
    LET cluster_accounts == DOMAIN get_cluster_accounts(account_info, cluster)
        resource_app_project_names == {projs[i].name : i \in DOMAIN projs}
        add(project_name) ==
            create_add_account_command(project_name, "projects", GENT, cluster, -1,
                                       qos_name_of(cluster, project_name))
        remove(project_name) ==
            IF project_name \notin protected
               THEN <<create_remove_account_command(project_name, cluster)>>
               ELSE <<>>
    IN {[i \in DOMAIN oa |-> add(oa[i])] \o Flatten([i \in DOMAIN orm |-> remove(orm[i])]) :
            oa \in IterationOrders(resource_app_project_names \ cluster_accounts),
            orm \in IterationOrders(cluster_accounts \ resource_app_project_names)}

\* the observed accounts removed whether protected or not
slurm_project_accounts_cluster_unprotected(projs, account_info, cluster, protected) ==
    LET cluster_accounts == DOMAIN get_cluster_accounts(account_info, cluster)
        resource_app_project_names == {projs[i].name : i \in DOMAIN projs}
        add(project_name) ==
            create_add_account_command(project_name, "projects", GENT, cluster, -1,
                                       qos_name_of(cluster, project_name))
        remove(project_name) ==
            create_remove_jobs_for_account_command(project_name, cluster)
            \o <<create_remove_account_command(project_name, cluster)>>
    IN {[i \in DOMAIN oa |-> add(oa[i])] \o Flatten([i \in DOMAIN orm |-> remove(orm[i])]) :
            oa \in IterationOrders(resource_app_project_names \ cluster_accounts),
            orm \in IterationOrders(cluster_accounts \ resource_app_project_names)}

\* one iteration of the loop over clusters in slurm_project_accounts
slurm_project_accounts_cluster(projs, account_info, cluster, protected) ==
    LET cluster_accounts == DOMAIN get_cluster_accounts(account_info, cluster)
        resource_app_project_names == {projs[i].name : i \in DOMAIN projs}
        add(project_name) ==
            create_add_account_command(project_name, "projects", GENT, cluster, -1,
                                       qos_name_of(cluster, project_name))
        remove(project_name) ==
            IF project_name \notin protected
               THEN create_remove_jobs_for_account_command(project_name, cluster)
                    \o <<create_remove_account_command(project_name, cluster)>>
               ELSE <<>>
    IN {[i \in DOMAIN oa |-> add(oa[i])] \o Flatten([i \in DOMAIN orm |-> remove(orm[i])]) :
            oa \in IterationOrders(resource_app_project_names \ cluster_accounts),
            orm \in IterationOrders(cluster_accounts \ resource_app_project_names)}

slurm_project_accounts(projs, account_info, cls, protected) ==
    ConcatChoices([i \in DOMAIN cls |->
                      slurm_project_accounts_cluster(projs, account_info, cls[i], protected)])

\* one iteration of the loop over clusters in slurm_project_users_accounts;
\* project_members is the list of <<members, project_name>> pairs
slurm_project_users_accounts_cluster(project_members, active, user_info, cluster) ==
    LET cluster_users_acct == {<<u.User, u.Account>> : u \in {x \in user_info : x.Cluster = cluster}}
        slurm_project_users(project_name) ==
            {ua[1] : ua \in {x \in cluster_users_acct : x[2] = project_name}}
        new_users ==
            UNION {{<<user, project_members[i][2]>> :
                        user \in (project_members[i][1] \cap active)
                                 \ slurm_project_users(project_members[i][2])} :
                   i \in DOMAIN project_members}
        remove_project_users ==
            UNION {{<<user, project_members[i][2]>> :
                        user \in slurm_project_users(project_members[i][2])
                                 \ project_members[i][1]} :
                   i \in DOMAIN project_members}
    IN {[i \in DOMAIN on |-> create_add_user_command(on[i][1], on[i][2], cluster, "")]
        \o [i \in DOMAIN orm |->
               create_remove_user_account_command(orm[i][1], orm[i][2], cluster)] :
            on \in IterationOrders(new_users),
            orm \in IterationOrders(remove_project_users)}

slurm_project_users_accounts(project_members, active, user_info, cls) ==
    ConcatChoices([i \in DOMAIN cls |->
        slurm_project_users_accounts_cluster(project_members, active, user_info, cls[i])])

----------------------------------------------------------------------------
(* sync.py: the institute, VO and VO-member reconcilers.                   *)

\* vsc.config.base INSTITUTE_VOS_BY_INSTITUTE[host_institute], as the list
\* sorted(list(....items())) of <<institute, default VO>> pairs
INSTITUTE_VOS_BY_INSTITUTE(host_institute) ==
    << <<"antwerpen", "gvo00017">>, <<"brussel", "gvo00016">>,
       <<"gent", "gvo00012">>, <<"leuven", "gvo00018">> >>

\* vsc.config.base INSTITUTE_FAIRSHARE[host_institute]
INSTITUTE_FAIRSHARE(host_institute) ==
    [i \in {"antwerpen", "brussel", "gent", "leuven"} |-> IF i = host_institute THEN 8500 ELSE 500]

\* the default VO of an institute added before the institute itself
slurm_institute_accounts_cluster_vo_first(account_info, cluster, host_institute, inst_vos) ==
    LET cluster_accounts == {acct.Account : acct \in {a \in account_info : a.Cluster = cluster}}
        table == INSTITUTE_VOS_BY_INSTITUTE(host_institute)
        for_institute(inst, vo) ==
            (IF vo \notin cluster_accounts
                THEN <<create_add_account_command(vo, inst, inst, cluster,
                            inst_vos[vo].fairshare, <<>>)>>
                ELSE <<>>)
            \o (IF inst \notin cluster_accounts
                   THEN <<create_add_account_command(inst, "", inst, cluster,
                               INSTITUTE_FAIRSHARE(host_institute)[inst], <<>>)>>
                   ELSE <<>>)
    IN Flatten([i \in DOMAIN table |-> for_institute(table[i][1], table[i][2])])

slurm_institute_accounts_cluster(account_info, cluster, host_institute, inst_vos) ==
    LET cluster_accounts == {acct.Account : acct \in {a \in account_info : a.Cluster = cluster}}
        table == INSTITUTE_VOS_BY_INSTITUTE(host_institute)
        for_institute(inst, vo) ==
            (IF inst \notin cluster_accounts
                THEN <<create_add_account_command(inst, "", inst, cluster,
                            INSTITUTE_FAIRSHARE(host_institute)[inst], <<>>)>>
                ELSE <<>>)
            \o (IF vo \notin cluster_accounts
                   THEN <<create_add_account_command(vo, inst, inst, cluster,
                               inst_vos[vo].fairshare, <<>>)>>
                   ELSE <<>>)
    IN Flatten([i \in DOMAIN table |-> for_institute(table[i][1], table[i][2])])

slurm_institute_accounts(account_info, cls, host_institute, inst_vos) ==
    Flatten([i \in DOMAIN cls |->
        slurm_institute_accounts_cluster(account_info, cls[i], host_institute, inst_vos)])

\* the fairshare of an existing account changed without comparing it
slurm_vo_accounts_cluster_always_change(vos, account_info, cluster, host_institute) ==
    LET cluster_accounts == get_cluster_accounts(account_info, cluster)
        default_vos == {pair[2] : pair \in Range(INSTITUTE_VOS_BY_INSTITUTE(host_institute))}
        for_vo(vo) ==
            IF vo.vsc_id \in default_vos THEN <<>>
            ELSE IF vo.vsc_id \notin DOMAIN cluster_accounts
                THEN <<create_add_account_command(vo.vsc_id, vo.institute, vo.institute,
                                                  cluster, vo.fairshare, <<>>)>>
            ELSE <<create_change_account_fairshare_command(vo.vsc_id, cluster, vo.fairshare)>>
    IN Flatten([i \in DOMAIN vos |-> for_vo(vos[i])])

\* the default VOs of the institutes treated as any other VO
slurm_vo_accounts_cluster_no_skip(vos, account_info, cluster, host_institute) ==
    LET cluster_accounts == get_cluster_accounts(account_info, cluster)
        for_vo(vo) ==
            IF vo.vsc_id \notin DOMAIN cluster_accounts
                THEN <<create_add_account_command(vo.vsc_id, vo.institute, vo.institute,
                                                  cluster, vo.fairshare, <<>>)>>
            ELSE IF vo.fairshare # cluster_accounts[vo.vsc_id]
                THEN <<create_change_account_fairshare_command(vo.vsc_id, cluster,
                                                               vo.fairshare)>>
            ELSE <<>>
    IN Flatten([i \in DOMAIN vos |-> for_vo(vos[i])])

slurm_vo_accounts_cluster(vos, account_info, cluster, host_institute) ==
    LET cluster_accounts == get_cluster_accounts(account_info, cluster)
        default_vos == {pair[2] : pair \in Range(INSTITUTE_VOS_BY_INSTITUTE(host_institute))}
        for_vo(vo) ==
            IF vo.vsc_id \in default_vos THEN <<>>
            ELSE IF vo.vsc_id \notin DOMAIN cluster_accounts
                THEN <<create_add_account_command(vo.vsc_id, vo.institute, vo.institute,
                                                  cluster, vo.fairshare, <<>>)>>
            ELSE IF vo.fairshare # cluster_accounts[vo.vsc_id]
                THEN <<create_change_account_fairshare_command(vo.vsc_id, cluster,
                                                               vo.fairshare)>>
            ELSE <<>>
    IN Flatten([i \in DOMAIN vos |-> for_vo(vos[i])])

slurm_vo_accounts(vos, account_info, cls, host_institute) ==
    Flatten([i \in DOMAIN cls |-> slurm_vo_accounts_cluster(vos, account_info, cls[i],
                                                            host_institute)])

\* reverse_vo_mapping: the VO of the last entry of vo_members that has m as a
\* member; vo_members is the list of the dict's items, a VO record with its
\* members.  "" when m is in no VO (the lookup raises KeyError).
reverse_vo_mapping(vo_members, m) ==
    LET holders == {i \in DOMAIN vo_members : m \in vo_members[i].members}
    IN IF holders = {} THEN ""
       ELSE vo_members[CHOOSE i \in holders : \A j \in holders : j <= i].vsc_id

\* moved_users after the loop over vo_members.items() for one cluster.  An
\* entry with current_vo_id "" is one of the 2-tuples the dry-run handler of
\* the KeyError adds.
moved_users_of(vo_members, active, cluster_users_acct, is_dry_run) ==
    LET changed_users_vo(i) ==
            ({ua[1] : ua \in {x \in cluster_users_acct : x[2] = vo_members[i].vsc_id}}
                \ vo_members[i].members) \cap active
        key_error(i) == \E user \in changed_users_vo(i) : reverse_vo_mapping(vo_members, user) = ""
        changed_users(i) == UNION {changed_users_vo(j) : j \in 1..i}
        moved(i) ==
            IF ~key_error(i)
               THEN {[user |-> user, current_vo_id |-> vo_members[i].vsc_id,
                      new_vo_id |-> reverse_vo_mapping(vo_members, user)] :
                        user \in changed_users_vo(i)}
            ELSE IF is_dry_run
               THEN {[user |-> user, current_vo_id |-> "",
                      new_vo_id |-> reverse_vo_mapping(vo_members, user)] :
                        user \in {u \in changed_users(i) : reverse_vo_mapping(vo_members, u) # ""}}
            ELSE {}
    IN UNION {moved(i) : i \in DOMAIN vo_members}

cluster_users_acct_of(user_info, cluster) ==
    {<<u.User, u.Def_Acct>> : u \in {x \in user_info : x.Cluster = cluster}}

\* unpacking an entry of moved_users raises ValueError for a 2-tuple
slurm_user_accounts_raises(vo_members, active, user_info, cls, is_dry_run) ==
    \E i \in DOMAIN cls :
        \E m \in moved_users_of(vo_members, active, cluster_users_acct_of(user_info, cls[i]),
                                is_dry_run) :
            m.current_vo_id = ""

\* every user that is no longer an active member of the VO of its default
\* account removed from the cluster, the moved users included
slurm_user_accounts_cluster_remove_leavers(vo_members, active, user_info, cluster, is_dry_run) ==
    LET cluster_users_acct == cluster_users_acct_of(user_info, cluster)
        cluster_users == {ua[1] : ua \in cluster_users_acct}
        remove_users ==
            {ua[1] : ua \in {x \in cluster_users_acct :
                                ~\E i \in DOMAIN vo_members :
                                    /\ vo_members[i].vsc_id = x[2]
                                    /\ x[1] \in vo_members[i].members \cap active}}
        new_users ==
            UNION {{<<user, vo_members[i].vsc_id>> :
                        user \in (vo_members[i].members \cap active) \ cluster_users} :
                   i \in DOMAIN vo_members}
        moved_users == moved_users_of(vo_members, active, cluster_users_acct, is_dry_run)
        change(m) == create_change_user_command(m.user, m.current_vo_id, m.new_vo_id, cluster)
    IN {<< [i \in DOMAIN orm |-> create_remove_user_jobs_command(orm[i], cluster, "", "")]
           \o [i \in DOMAIN om |-> change(om[i])[3]],
           [i \in DOMAIN on |-> create_add_user_command(on[i][1], on[i][2], cluster, on[i][2])]
           \o [i \in DOMAIN orm |-> create_remove_user_command(orm[i], cluster)]
           \o Flatten([i \in DOMAIN om |->
                         <<change(om[i])[1], change(om[i])[2], change(om[i])[4]>>]) >> :
            on \in IterationOrders(new_users),
            orm \in IterationOrders(remove_users),
            om \in IterationOrders(moved_users)}

\* one iteration of the loop over clusters in slurm_user_accounts: the
\* possible <<job_cancel_commands, commands>> it appends
slurm_user_accounts_cluster(vo_members, active, user_info, cluster, is_dry_run) ==
    LET active_vo_members == UNION {vo_members[i].members \cap active : i \in DOMAIN vo_members}
        cluster_users_acct == cluster_users_acct_of(user_info, cluster)
        cluster_users == {ua[1] : ua \in cluster_users_acct}
        remove_users == cluster_users \ active_vo_members
        new_users ==
            UNION {{<<user, vo_members[i].vsc_id>> :
                        user \in (vo_members[i].members \cap active) \ cluster_users} :
                   i \in DOMAIN vo_members}
        moved_users == moved_users_of(vo_members, active, cluster_users_acct, is_dry_run)
        change(m) == create_change_user_command(m.user, m.current_vo_id, m.new_vo_id, cluster)
    IN {<< [i \in DOMAIN orm |-> create_remove_user_jobs_command(orm[i], cluster, "", "")]
           \o [i \in DOMAIN om |-> change(om[i])[3]],
           [i \in DOMAIN on |-> create_add_user_command(on[i][1], on[i][2], cluster, on[i][2])]
           \o [i \in DOMAIN orm |-> create_remove_user_command(orm[i], cluster)]
           \o Flatten([i \in DOMAIN om |->
                         <<change(om[i])[1], change(om[i])[2], change(om[i])[4]>>]) >> :
            on \in IterationOrders(new_users),
            orm \in IterationOrders(remove_users),
            om \in IterationOrders(moved_users)}

\* the possible return values [job_cancel_commands, commands] of a call that
\* does not raise
RECURSIVE slurm_user_accounts(_, _, _, _, _)
slurm_user_accounts(vo_members, active, user_info, cls, is_dry_run) ==
    IF cls = <<>> THEN {<< <<>>, <<>> >>}
    ELSE {<<h[1] \o t[1], h[2] \o t[2]>> :
            h \in slurm_user_accounts_cluster(vo_members, active, user_info, Head(cls),
                                              is_dry_run),
            t \in slurm_user_accounts(vo_members, active, user_info, Tail(cls), is_dry_run)}

----------------------------------------------------------------------------
(* The reconcilers' results of one run, by name.                           *)

Buckets ==
    {"qos", "accounts", "users",
     "institutes", "vos", "job_cancel", "commands",
     "sacct_new_update", "sacct_remove", "scontrol_new_update", "scontrol_remove"}

NoOut == [b \in Buckets |-> <<>>]

NoOpts ==
    [force_update |-> FALSE,
     reservation_cluster |-> <<>>, reservation_partition |-> "",
     resource_clusters |-> <<>>,
     ignore_resources |-> {}, ignore_reservations |-> {}]

NoLicenses == [k \in {} |-> 0]

NoScontrol == [ClusterName |-> <<>>, partitions |-> {}, licenses |-> NoLicenses, reservations |-> {}]

NoListing == [parser |-> "", info_type |-> "", header |-> <<>>, lines |-> <<>>, exclude |-> {}]

NoParsed == [raised |-> FALSE, info |-> {}]

NoExterns == [e \in {} |-> 0]

----------------------------------------------------------------------------
(* bin/sync_slurm_tier1_projects.py                                        *)

\* projects_members = [(set(p.members), p.name) for p in projects]
projects_members_of(projs) == [i \in DOMAIN projs |-> <<projs[i].members, projs[i].name>>]

\* the account commands assembled before the QoS commands
assemble_project_plan_accounts_first(qos, accounts, users) == accounts \o qos \o users

\* sacctmgr_commands as main() assembles it
assemble_project_plan(qos, accounts, users) == qos \o accounts \o users

\* main(), up to the assembled sacctmgr_commands.  main() passes no
\* protected_accounts to slurm_project_accounts; the list is an input here.
sync_slurm_tier1_projects_main ==
    /\ script = "projects"
    /\ pc = "start"
    /\ \E q \in slurm_project_qos(projects, slurm_qos_info, clusters),
          a \in slurm_project_accounts(projects, slurm_account_info, clusters,
                                       protected_accounts),
          u \in slurm_project_users_accounts(projects_members_of(projects), active_accounts,
                                             slurm_user_info, clusters) :
            /\ out' = [NoOut EXCEPT !["qos"] = q, !["accounts"] = a, !["users"] = u]
            /\ plan' = assemble_project_plan(q, a, u)
    /\ n_executed' = 0
    /\ IF dry_run
          THEN pc' = "done" /\ exit_code' = "ok"
          ELSE pc' = "exec" /\ exit_code' = "none"
    /\ UNCHANGED <<inputs, parsed, licenses, run, prev_plan>>

\* the commands after a failed one are run as well, the failure is reported
\* at the end
execute_commands_keep_going ==
    /\ pc = "exec"
    /\ IF n_executed = Len(plan)
          THEN /\ pc' = "done"
               /\ exit_code' = IF exit_code = "critical" THEN "critical" ELSE "ok"
               /\ UNCHANGED n_executed
          ELSE /\ n_executed' = n_executed + 1
               /\ \E ec \in {0, 1} :
                    IF ec # 0
                       THEN pc' = pc /\ exit_code' = "critical"
                       ELSE UNCHANGED <<pc, exit_code>>
    /\ UNCHANGED <<inputs, parsed, licenses, out, plan, run, prev_plan>>

\* execute_commands: one command per step; the first non-zero exit code ends
\* the script as critical.
execute_commands ==
    /\ pc = "exec"
    /\ IF n_executed = Len(plan)
          THEN /\ pc' = "done"
               /\ exit_code' = "ok"
               /\ UNCHANGED n_executed
          ELSE /\ n_executed' = n_executed + 1
               /\ \E ec \in {0, 1} :
                    IF ec # 0
                       THEN pc' = "done" /\ exit_code' = "critical"
                       ELSE UNCHANGED <<pc, exit_code>>
    /\ UNCHANGED <<inputs, parsed, licenses, out, plan, run, prev_plan>>

\* The script is a cron job: a dry run changes nothing, so the next run
\* reads the same snapshots.
next_run ==
    /\ pc = "done"
    /\ dry_run
    /\ exit_code = "ok"
    /\ run < MaxRuns
    /\ run' = run + 1
    /\ prev_plan' = plan
    /\ pc' = "start"
    /\ exit_code' = "none"
    /\ plan' = <<>>
    /\ out' = NoOut
    /\ n_executed' = 0
    /\ UNCHANGED <<inputs, parsed, licenses>>

----------------------------------------------------------------------------
(* The institute, VO and VO-member reconcilers of sync.py applied to one   *)
(* set of snapshots, as the tests do; no script of the repository calls    *)
(* them.                                                                   *)

\* the default VOs of the institutes, with their fairshare
institute_vos ==
    [vo \in {"gvo00012", "gvo00016", "gvo00017", "gvo00018"} |->
        [vsc_id |-> vo,
         fairshare |-> CASE vo = "gvo00012" -> 100
                         [] vo = "gvo00016" -> 10
                         [] vo = "gvo00017" -> 30
                         [] vo = "gvo00018" -> 20]]

\* exit_code "critical" stands for the exception slurm_user_accounts raises
slurm_account_reconcilers ==
    /\ script = "accounts"
    /\ pc = "start"
    /\ LET i == slurm_institute_accounts(slurm_account_info, clusters, GENT, institute_vos)
           v == slurm_vo_accounts(account_page_vos, slurm_account_info, clusters, GENT)
       IN IF slurm_user_accounts_raises(account_page_vos, active_accounts, slurm_user_info,
                                        clusters, dry_run)
             THEN /\ out' = [NoOut EXCEPT !["institutes"] = i, !["vos"] = v]
                  /\ exit_code' = "critical"
             ELSE \E r \in slurm_user_accounts(account_page_vos, active_accounts,
                                               slurm_user_info, clusters, dry_run) :
                    /\ out' = [NoOut EXCEPT !["institutes"] = i, !["vos"] = v,
                                            !["job_cancel"] = r[1], !["commands"] = r[2]]
                    /\ exit_code' = "ok"
    /\ pc' = "done"
    /\ plan' = <<>>
    /\ n_executed' = 0
    /\ UNCHANGED <<inputs, parsed, licenses, run, prev_plan>>

----------------------------------------------------------------------------
(* bin/sync_slurm_acct.py, the account sync script.  It defines command    *)
(* builders and reconcilers of its own under the names sync.py uses; here  *)
(* they carry the prefix acct_.  The script reads no list of active        *)
(* accounts and has no option beside the clusters.                         *)

\* vsc.config.base INSTITUTE_VOS, as the list of its items
INSTITUTE_VOS == INSTITUTE_VOS_BY_INSTITUTE(GENT)

\* parent "" stands for None
acct_create_add_account_command(account, parent, organisation, cluster) ==
    [NoCmd EXCEPT !.tool = SLURM_SACCT_MGR, !.verb = "add", !.entity = "account",
                  !.account = account,
                  !.parent = IF parent = "" THEN "root" ELSE parent,
                  !.org = SLURM_ORGANISATIONS[organisation],
                  !.cluster = cluster]

acct_create_add_user_command(user, vo_id, cluster) ==
    [NoCmd EXCEPT !.tool = SLURM_SACCT_MGR, !.verb = "add", !.entity = "user",
                  !.user = user, !.account = vo_id, !.cluster = cluster]

acct_create_change_user_command(user, vo_id, cluster) ==
    [NoCmd EXCEPT !.tool = SLURM_SACCT_MGR, !.verb = "update", !.entity = "user",
                  !.user = user, !.cluster = cluster,
                  !.default_account = vo_id, !.account = vo_id]

acct_create_remove_user_command(user, cluster) ==
    [NoCmd EXCEPT !.tool = SLURM_SACCT_MGR, !.verb = "delete", !.entity = "user",
                  !.user = user, !.cluster = cluster]

acct_slurm_institute_accounts(account_info, cls) ==
    LET for_cluster(cluster) ==
            LET cluster_accounts == {acct.Account : acct \in {a \in account_info : a.Cluster = cluster}}
                for_institute(inst, vo) ==
                    (IF inst \notin cluster_accounts
                        THEN <<acct_create_add_account_command(inst, "", inst, cluster)>>
                        ELSE <<>>)
                    \o (IF vo \notin cluster_accounts
                           THEN <<acct_create_add_account_command(vo, inst, inst, cluster)>>
                           ELSE <<>>)
            IN Flatten([i \in DOMAIN INSTITUTE_VOS |->
                            for_institute(INSTITUTE_VOS[i][1], INSTITUTE_VOS[i][2])])
    IN Flatten([i \in DOMAIN cls |-> for_cluster(cls[i])])

\* "vo.vsc_id in INSTITUTE_VOS" tests the keys of the table, the institutes
acct_slurm_vo_accounts(vos, account_info, cls) ==
    LET for_cluster(cluster) ==
            LET cluster_accounts == {acct.Account : acct \in {a \in account_info : a.Cluster = cluster}}
                for_vo(vo) ==
                    IF vo.vsc_id \in {pair[1] : pair \in Range(INSTITUTE_VOS)} THEN <<>>
                    ELSE IF vo.vsc_id \notin cluster_accounts
                        THEN <<acct_create_add_account_command(vo.vsc_id, vo.institute,
                                                               vo.institute, cluster)>>
                    ELSE <<>>
            IN Flatten([i \in DOMAIN vos |-> for_vo(vos[i])])
    IN Flatten([i \in DOMAIN cls |-> for_cluster(cls[i])])

\* changed_users of one cluster: the users listed under a VO of vo_members
\* that they are no member of
acct_changed_users(vo_members, user_info, cluster) ==
    UNION {{ua[1] : ua \in {x \in cluster_users_acct_of(user_info, cluster) :
                               x[2] = vo_members[i].vsc_id}} \ vo_members[i].members :
           i \in DOMAIN vo_members}

\* reverse_vo_mapping[user] raises KeyError for a changed user of no VO
acct_slurm_user_accounts_raises(vo_members, user_info, cls) ==
    \E i \in DOMAIN cls :
        \E user \in acct_changed_users(vo_members, user_info, cls[i]) :
            reverse_vo_mapping(vo_members, user) = ""

\* one iteration of the loop over clusters: the possible commands
acct_slurm_user_accounts_cluster(vo_members, user_info, cluster) ==
    LET all_vo_members == UNION {vo_members[i].members : i \in DOMAIN vo_members}
        cluster_users == {ua[1] : ua \in cluster_users_acct_of(user_info, cluster)}
        remove_users == cluster_users \ all_vo_members
        new_users ==
            UNION {{<<user, vo_members[i].vsc_id>> : user \in vo_members[i].members \ cluster_users} :
                   i \in DOMAIN vo_members}
        moved_users == {<<user, reverse_vo_mapping(vo_members, user)>> :
                            user \in acct_changed_users(vo_members, user_info, cluster)}
    IN {[i \in DOMAIN on |-> acct_create_add_user_command(on[i][1], on[i][2], cluster)]
        \o [i \in DOMAIN orm |-> acct_create_remove_user_command(orm[i], cluster)]
        \o [i \in DOMAIN om |-> acct_create_change_user_command(om[i][1], om[i][2], cluster)] :
            on \in IterationOrders(new_users),
            orm \in IterationOrders(remove_users),
            om \in IterationOrders(moved_users)}

\* the possible return values of a call that does not raise
acct_slurm_user_accounts(vo_members, user_info, cls) ==
    ConcatChoices([i \in DOMAIN cls |->
                      acct_slurm_user_accounts_cluster(vo_members, user_info, cls[i])])

sync_slurm_acct_main ==
    /\ script = "sync_slurm_acct"
    /\ pc = "start"
    /\ n_executed' = 0
    /\ out' = NoOut
    /\ IF acct_slurm_user_accounts_raises(account_page_vos, slurm_user_info, clusters)
          THEN /\ plan' = <<>>
               /\ pc' = "done"
               /\ exit_code' = "critical"
          ELSE /\ \E users \in acct_slurm_user_accounts(account_page_vos, slurm_user_info,
                                                        clusters) :
                    plan' = acct_slurm_institute_accounts(slurm_account_info, clusters)
                            \o acct_slurm_vo_accounts(account_page_vos, slurm_account_info,
                                                      clusters)
                            \o users
               /\ IF dry_run
                     THEN pc' = "done" /\ exit_code' = "ok"
                     ELSE pc' = "acct_exec" /\ exit_code' = "none"
    /\ UNCHANGED <<inputs, parsed, licenses, run, prev_plan>>

\* execute_commands of the script: every command is run, whatever the
\* outcome of the ones before it
acct_execute_commands ==
    /\ pc = "acct_exec"
    /\ IF n_executed = Len(plan)
          THEN /\ pc' = "done"
               /\ exit_code' = "ok"
               /\ UNCHANGED n_executed
          ELSE /\ n_executed' = n_executed + 1
               /\ UNCHANGED <<pc, exit_code>>
    /\ UNCHANGED <<inputs, parsed, licenses, out, plan, run, prev_plan>>

----------------------------------------------------------------------------
(* bin/sync_slurm_external_licenses.py with the command builders of        *)
(* sacctmgr.py and scontrol.py.  A license key "name@server" and a         *)
(* reservation name are token sequences.                                   *)

SLURM_SCONTROL == "/usr/bin/scontrol"

LICENSE_RESERVATION_PREFIX == <<"external_license_">>

\* "%s@%s" % (name, server)
license_key(name, server) == <<name, "@", server>>

make_license_reservation_name(licname) == LICENSE_RESERVATION_PREFIX \o licname

create_add_resource_license_command(name, server, stype, cls, count) ==
    [NoCmd EXCEPT !.tool = SLURM_SACCT_MGR, !.verb = "add", !.entity = "resource",
                  !.name = name, !.server = server, !.stype = stype,
                  !.clusters = cls, !.count = count]

create_remove_resource_license_command(name, server, stype) ==
    [NoCmd EXCEPT !.tool = SLURM_SACCT_MGR, !.verb = "remove", !.entity = "resource",
                  !.name = name, !.server = server, !.stype = stype]

create_modify_resource_license_command(name, server, stype, count) ==
    [NoCmd EXCEPT !.tool = SLURM_SACCT_MGR, !.verb = "modify", !.entity = "resource",
                  !.name = name, !.server = server, !.stype = stype, !.count = count]

create_create_license_reservation(licname, value, partition) ==
    [NoCmd EXCEPT !.tool = SLURM_SCONTROL, !.verb = "create", !.entity = "reservation",
                  !.reservation = make_license_reservation_name(licname),
                  !.licenses = licname, !.value = value, !.partition = partition]

create_update_license_reservation(licname, value) ==
    [NoCmd EXCEPT !.tool = SLURM_SCONTROL, !.verb = "update", !.entity = "reservation",
                  !.reservation = make_license_reservation_name(licname),
                  !.licenses = licname, !.value = value]

create_delete_reservation(reservation) ==
    [NoCmd EXCEPT !.tool = SLURM_SCONTROL, !.verb = "delete", !.entity = "reservation",
                  !.reservation = reservation]

\* the order of str comparison on the tokens of the names
TokenOrder == <<"@", "an1", "an2", "an3", "comp1", "external_license_">>

TokenRank(t) == CHOOSE i \in DOMAIN TokenOrder : TokenOrder[i] = t

RECURSIVE str_lt(_, _)
str_lt(a, b) ==
    IF a = <<>> THEN b # <<>>
    ELSE IF b = <<>> THEN FALSE
    ELSE IF Head(a) = Head(b) THEN str_lt(Tail(a), Tail(b))
    ELSE TokenRank(Head(a)) < TokenRank(Head(b))

\* sorted(list(S))
sorted(S) ==
    CHOOSE o \in IterationOrders(S) : \A i \in 1..(Cardinality(S) - 1) : str_lt(o[i], o[i + 1])

\* the resource of every known license modified, changed or not
update_licenses_always_modify(lics, cls, ignore_resources, force_update, res_info) ==
    LET filtered == {resc \in res_info : resc.Type = "License" /\ resc.Name \notin ignore_resources}
        info == [k \in {license_key(resc.Name, resc.Server) : resc \in filtered} |->
                    CHOOSE resc \in filtered : license_key(resc.Name, resc.Server) = k]
        skip == {x \in DOMAIN lics : lics[x].skip}
        known == DOMAIN info \ skip
        config == DOMAIN lics \ skip
        remove == sorted(known \ config)
        new == sorted(config \ known)
        update == sorted(config \cap known)
        add_cmd(name) ==
            create_add_resource_license_command(lics[name].name, lics[name].extern,
                                                lics[name].type, cls, lics[name].count)
        update_cmd(name) ==
            create_modify_resource_license_command(lics[name].name, lics[name].extern,
                                                   lics[name].type, lics[name].count)
        remove_cmd(name) ==
            create_remove_resource_license_command(info[name].Name, info[name].Server,
                                                   info[name].ServerType)
    IN << [i \in DOMAIN new |-> add_cmd(new[i])]
          \o [i \in DOMAIN update |-> update_cmd(update[i])],
          [i \in DOMAIN remove |-> remove_cmd(remove[i])] >>

\* update_licenses: <<new_update_cmds, remove_cmds>>; res_info is what
\* get_slurm_sacct_info(SacctMgrTypes.resource) returns
update_licenses(lics, cls, ignore_resources, force_update, res_info) ==
    LET filtered == {resc \in res_info : resc.Type = "License" /\ resc.Name \notin ignore_resources}
        info == [k \in {license_key(resc.Name, resc.Server) : resc \in filtered} |->
                    CHOOSE resc \in filtered : license_key(resc.Name, resc.Server) = k]
        skip == {x \in DOMAIN lics : lics[x].skip}
        known == DOMAIN info \ skip
        config == DOMAIN lics \ skip
        remove == sorted(known \ config)
        new == sorted(config \ known)
        update == sorted(config \cap known)
        add_cmd(name) ==
            create_add_resource_license_command(lics[name].name, lics[name].extern,
                                                lics[name].type, cls, lics[name].count)
        update_cmd(name) ==
            IF force_update \/ lics[name].count # info[name].Count
               THEN <<create_modify_resource_license_command(lics[name].name, lics[name].extern,
                                                             lics[name].type, lics[name].count)>>
               ELSE <<>>
        remove_cmd(name) ==
            create_remove_resource_license_command(info[name].Name, info[name].Server,
                                                   info[name].ServerType)
    IN << [i \in DOMAIN new |-> add_cmd(new[i])]
          \o Flatten([i \in DOMAIN update |-> update_cmd(update[i])]),
          [i \in DOMAIN remove |-> remove_cmd(remove[i])] >>

\* lic['fullname'] = licname for every license: the dict after the first
\* loop of update_license_reservations
with_fullname(lics) == [k \in DOMAIN lics |-> [lics[k] EXCEPT !.fullname = k]]

\* the reservations update_license_reservations considers: the names in ress
license_reservations(sc, ignore_reservations) ==
    {r.ReservationName :
        r \in {v \in sc.reservations :
                  /\ v.Licenses # ""
                  /\ startswith(v.ReservationName, LICENSE_RESERVATION_PREFIX)
                  /\ v.ReservationName \notin ignore_reservations}}

\* the diff without the skip marker
reservation_diff_keeps_skipped(lics, sc, ignore_reservations) ==
    LET known == license_reservations(sc, ignore_reservations)
        config == {make_license_reservation_name(k) : k \in DOMAIN lics}
    IN [remove |-> sorted(known \ config),
        new |-> sorted(config \ known),
        update |-> sorted(config \cap known)]

\* the three sorted lists remove, new, update of update_license_reservations
reservation_diff(lics, sc, ignore_reservations) ==
    LET rnames == {make_license_reservation_name(k) : k \in DOMAIN lics}
        skip == {make_license_reservation_name(k) : k \in {x \in DOMAIN lics : lics[x].skip}}
        known == license_reservations(sc, ignore_reservations) \ skip
        config == rnames \ skip
    IN [remove |-> sorted(known \ config),
        new |-> sorted(config \ known),
        update |-> sorted(config \cap known)]

\* the difference without the clamp
reservation_value_unclamped(used, in_use) == in_use - used

\* the quantity an existing reservation is updated to
reservation_value(used, in_use) == IF used > in_use THEN 0 ELSE in_use - used

\* the checks without the comparison of the cluster names
update_license_reservations_raises_no_cluster_check(lics, cluster, partition, ignore, sc) ==
    IF partition \notin sc.partitions THEN "Wrong partition"
    ELSE IF \E res \in Range(reservation_diff(lics, sc, ignore).update) :
                res \notin {make_license_reservation_name(k) : k \in DOMAIN sc.licenses}
         THEN "KeyError"
    ELSE ""

\* the exception update_license_reservations raises, "" when it returns; sc
\* is what scontrol shows
update_license_reservations_raises(lics, cluster, partition, ignore_reservations, sc) ==
    IF cluster # sc.ClusterName THEN "Wrong cluster"
    ELSE IF partition \notin sc.partitions THEN "Wrong partition"
    ELSE IF \E res \in Range(reservation_diff(lics, sc, ignore_reservations).update) :
                res \notin {make_license_reservation_name(k) : k \in DOMAIN sc.licenses}
         THEN "KeyError"
    ELSE ""

\* update_license_reservations when it returns: <<new_update_cmds, remove_cmds>>
update_license_reservations(lics, cluster, partition, ignore_reservations, force_update, sc) ==
    LET rlicenses == [r \in {make_license_reservation_name(k) : k \in DOMAIN lics} |->
                         with_fullname(lics)[Tail(r)]]
        slurm_lics == [r \in {make_license_reservation_name(k) : k \in DOMAIN sc.licenses} |->
                          sc.licenses[Tail(r)]]
        diff == reservation_diff(lics, sc, ignore_reservations)
        new_cmd(res) ==
            create_create_license_reservation(rlicenses[res].fullname, rlicenses[res].in_use,
                                              partition)
        update_cmd(res) ==
            LET value == reservation_value(slurm_lics[res].Used, rlicenses[res].in_use)
            IN IF force_update \/ value # slurm_lics[res].Reserved
                  THEN <<create_update_license_reservation(rlicenses[res].fullname, value)>>
                  ELSE <<>>
    IN << [i \in DOMAIN diff.new |-> new_cmd(diff.new[i])]
          \o Flatten([i \in DOMAIN diff.update |-> update_cmd(diff.update[i])]),
          [i \in DOMAIN diff.remove |-> create_delete_reservation(diff.remove[i])] >>

\* the removals assembled before the additions
assemble_license_plan_remove_first(sacct_new, scontrol_new, scontrol_rm, sacct_rm) ==
    sacct_rm \o scontrol_rm \o sacct_new \o scontrol_new

\* all_commands: "remove is in reverse order"
assemble_license_plan(sacct_new_update, scontrol_new_update, scontrol_remove, sacct_remove) ==
    sacct_new_update \o scontrol_new_update \o scontrol_remove \o sacct_remove

\* the option checks at the start of main()
options_error ==
    \/ opts.reservation_cluster = <<>>
    \/ opts.reservation_cluster \notin Range(opts.resource_clusters)
    \/ opts.reservation_partition = ""

\* main(), up to all_commands; licenses is the dict licenses_data returned
sync_slurm_external_licenses_main ==
    /\ script = "licenses"
    /\ pc = "start"
    /\ n_executed' = 0
    /\ IF options_error
          THEN /\ out' = NoOut
               /\ plan' = <<>>
               /\ pc' = "done"
               /\ exit_code' = "critical"
               /\ UNCHANGED licenses
          ELSE LET sacct == update_licenses(licenses, opts.resource_clusters,
                                            opts.ignore_resources, opts.force_update, resources)
                   raises == update_license_reservations_raises(licenses,
                                 opts.reservation_cluster, opts.reservation_partition,
                                 opts.ignore_reservations, scontrol)
                   sc == update_license_reservations(licenses, opts.reservation_cluster,
                                 opts.reservation_partition, opts.ignore_reservations,
                                 opts.force_update, scontrol)
               IN /\ licenses' = with_fullname(licenses)
                  /\ IF raises # ""
                        THEN /\ out' = [NoOut EXCEPT !["sacct_new_update"] = sacct[1],
                                                     !["sacct_remove"] = sacct[2]]
                             /\ plan' = <<>>
                             /\ pc' = "done"
                             /\ exit_code' = "critical"
                        ELSE /\ out' = [NoOut EXCEPT !["sacct_new_update"] = sacct[1],
                                                     !["sacct_remove"] = sacct[2],
                                                     !["scontrol_new_update"] = sc[1],
                                                     !["scontrol_remove"] = sc[2]]
                             /\ plan' = assemble_license_plan(sacct[1], sc[1], sc[2], sacct[2])
                             /\ IF dry_run
                                   THEN pc' = "done" /\ exit_code' = "ok"
                                   ELSE pc' = "exec" /\ exit_code' = "none"
    /\ UNCHANGED <<inputs, parsed, run, prev_plan>>

----------------------------------------------------------------------------
(* The parsers of the sacctmgr and scontrol listings.  A data line of a    *)
(* sacctmgr listing is the list of its fields, line.split("|"); a line of  *)
(* an scontrol listing is the list of its tokens, shlex.split(line), a     *)
(* token key=value being <<key, value>> and a token without "=" <<word>>.  *)
(* Positions count from 1; 0 stands for None.  Of the columns of a         *)
(* listing the model keeps the ones the reconcilers read; the QoS listing  *)
(* goes the way of the users listing and is left out.                      *)

\* the None of Python as a field value
NoValue == "<None>"

SacctUserFields == <<"User", "Def_Acct", "Cluster", "Account">>
SacctAccountFields == <<"Account", "Cluster", "User", "Share">>
SacctResourceFields == <<"Name", "Server", "Type", "Count">>
ScontrolLicenseFields == <<"LicenseName", "Total", "Used", "Free", "Reserved">>

IGNORE_USERS == {"root"}
IGNORE_ACCOUNTS == {"root"}

\* the strings int() converts
IntStrings == {"0", "1", "2"}

\* int(s) for s in IntStrings
int(s) == CASE s = "0" -> 0 [] s = "1" -> 1 [] s = "2" -> 2

\* w.replace(' ', '_') on the column titles of a header
header_name(w) == CASE w = "Def Acct" -> "Def_Acct" [] OTHER -> w

\* the position of the column titled name, whatever its case; 0 when absent
field_number(header, name) ==
    LET lower(h) == CASE h = "User" -> "user" [] h = "Account" -> "account" [] OTHER -> h
        at == {i \in DOMAIN header : lower(header[i]) = name}
    IN IF at = {} THEN 0 ELSE CHOOSE i \in at : \A j \in at : i <= j

\* dict(zip(header, fields)): the titles that have a field
zip_dict(header, fields) ==
    [h \in {header[i] : i \in {j \in DOMAIN header : j <= Len(fields)}} |->
        fields[CHOOSE i \in DOMAIN header : header[i] = h]]

\* vsc.accountpage.wrappers.mkNamedTupleInstance on a namedtuple_with_defaults:
\* a field the dict lacks is None
mkNamedTupleInstance(d, tuple_fields) ==
    [f \in Range(tuple_fields) |-> IF f \in DOMAIN d THEN d[f] ELSE NoValue]

\* what parsing a line gives: an exception raised, None, or a record
exception == [kind |-> "raise", info |-> <<>>]
nothing == [kind |-> "none", info |-> <<>>]
record(r) == [kind |-> "info", info |-> r]

mkSlurmAccount(fields) ==
    LET account == mkNamedTupleInstance(fields, SacctAccountFields)
    IN IF account.Account \in IGNORE_ACCOUNTS THEN nothing ELSE record(account)

mkSlurmUser(fields) ==
    LET user == mkNamedTupleInstance(fields, SacctUserFields)
    IN IF user.User \in IGNORE_USERS THEN nothing ELSE record(user)

\* fields['Count'] = int(fields['Count']) raises KeyError or ValueError
mkSlurmResource(fields) ==
    IF "Count" \notin DOMAIN fields THEN exception
    ELSE IF fields["Count"] \notin IntStrings THEN exception
    ELSE record(mkNamedTupleInstance([fields EXCEPT !["Count"] = int(fields["Count"])],
                                     SacctResourceFields))

\* sacctmgr.py parse_slurm_sacct_line; fields[n] raises IndexError past the
\* end of the line
parse_slurm_sacct_line(header, fields, info_type, user_field_number, account_field_number, exclude) ==
    IF info_type = "accounts"
       THEN IF exclude # {} /\ account_field_number > Len(fields) THEN exception
            ELSE IF exclude # {} /\ fields[account_field_number] \in exclude THEN nothing
            ELSE IF user_field_number > Len(fields) THEN exception
            ELSE IF fields[user_field_number] # "" THEN nothing
            ELSE mkSlurmAccount(zip_dict(header, fields))
    ELSE IF info_type = "users" THEN mkSlurmUser(zip_dict(header, fields))
    ELSE IF info_type = "resource" THEN mkSlurmResource(zip_dict(header, fields))
    ELSE nothing

\* the loop over the data lines of a dump: the first exception is logged and
\* raised again, and ends the dump
dump_of(results) ==
    IF \E i \in DOMAIN results : results[i].kind = "raise"
       THEN [raised |-> TRUE, info |-> {}]
       ELSE [raised |-> FALSE,
             info |-> {results[i].info : i \in {j \in DOMAIN results : results[j].kind = "info"}}]

\* sacctmgr.py parse_slurm_sacct_dump; the positions of the user and account
\* columns are looked up for an accounts listing only, and index() raises
\* ValueError when the column is missing
parse_slurm_sacct_dump(header_line, lines, info_type, exclude) ==
    LET header == [i \in DOMAIN header_line |-> header_name(header_line[i])]
        user_field_number == IF info_type = "accounts" THEN field_number(header, "user") ELSE 0
        account_field_number ==
            IF info_type = "accounts" THEN field_number(header, "account") ELSE 0
    IN IF info_type = "accounts" /\ (user_field_number = 0 \/ account_field_number = 0)
          THEN [raised |-> TRUE, info |-> {}]
          ELSE dump_of([i \in DOMAIN lines |->
                   parse_slurm_sacct_line(header, lines[i], info_type, user_field_number,
                                          account_field_number, exclude)])

\* sync.py parse_slurm_acct_line: no resource listing; fields[None] raises
\* TypeError
parse_slurm_acct_line(header, fields, info_type, user_field_number, account_field_number, exclude) ==
    IF info_type = "accounts"
       THEN IF exclude # {} /\ (account_field_number = 0 \/ account_field_number > Len(fields))
               THEN exception
            ELSE IF exclude # {} /\ fields[account_field_number] \in exclude THEN nothing
            ELSE IF user_field_number = 0 \/ user_field_number > Len(fields) THEN exception
            ELSE IF fields[user_field_number] # "" THEN nothing
            ELSE mkSlurmAccount(zip_dict(header, fields))
    ELSE IF info_type = "users" THEN mkSlurmUser(zip_dict(header, fields))
    ELSE nothing

\* sync.py parse_slurm_acct_dump; a missing user or account column gives None
parse_slurm_acct_dump(header_line, lines, info_type, exclude) ==
    LET header == [i \in DOMAIN header_line |-> header_name(header_line[i])]
        user_field_number == field_number(header, "user")
        account_field_number == field_number(header, "account")
    IN dump_of([i \in DOMAIN lines |->
           parse_slurm_acct_line(header, lines[i], info_type, user_field_number,
                                 account_field_number, exclude)])

\* int(fields[key]) for the counters of a license: KeyError for a missing
\* key, TypeError for None, ValueError for anything but digits
mkSlurmLicense(fields) ==
    LET counters == {"Total", "Used", "Free", "Reserved"}
    IN IF \E key \in counters : key \notin DOMAIN fields \/ fields[key] \notin IntStrings
          THEN exception
          ELSE record(mkNamedTupleInstance(
                   [k \in DOMAIN fields |-> IF k \in counters THEN int(fields[k]) ELSE fields[k]],
                   ScontrolLicenseFields))

\* scontrol.py parse_scontrol_line for a license listing: dict() of the
\* tokens raises ValueError for a token without "="; (null) becomes None
parse_scontrol_line(tokens, info_type) ==
    IF \E i \in DOMAIN tokens : Len(tokens[i]) # 2 THEN exception
    ELSE LET keys == {tokens[i][1] : i \in DOMAIN tokens}
             last(k) == CHOOSE i \in DOMAIN tokens :
                            tokens[i][1] = k /\ \A j \in DOMAIN tokens : tokens[j][1] = k => j <= i
             fields == [k \in keys |->
                           IF tokens[last(k)][2] = "(null)" THEN NoValue ELSE tokens[last(k)][2]]
         IN IF info_type = "license" THEN mkSlurmLicense(fields) ELSE nothing

\* scontrol.py parse_scontrol_dump: a single line starting with "No " is no
\* result, empty lines are skipped
parse_scontrol_dump(lines, info_type) ==
    IF Len(lines) = 1 /\ lines[1] # <<>> /\ Head(lines[1]) = <<"No">> /\ Len(lines[1]) > 1
       THEN [raised |-> FALSE, info |-> {}]
       ELSE dump_of([i \in DOMAIN lines |->
                IF lines[i] = <<>> THEN nothing ELSE parse_scontrol_line(lines[i], info_type)])

\* one call of a parser on the listing
parse_dump ==
    /\ script = "parse"
    /\ pc = "start"
    /\ parsed' = CASE listing.parser = "sacctmgr" ->
                        parse_slurm_sacct_dump(listing.header, listing.lines, listing.info_type,
                                               listing.exclude)
                   [] listing.parser = "sync" ->
                        parse_slurm_acct_dump(listing.header, listing.lines, listing.info_type,
                                              listing.exclude)
                   [] listing.parser = "scontrol" ->
                        parse_scontrol_dump(listing.lines, listing.info_type)
    /\ pc' = "done"
    /\ exit_code' = IF parsed'.raised THEN "critical" ELSE "ok"
    /\ UNCHANGED <<inputs, licenses, out, plan, n_executed, run, prev_plan>>

----------------------------------------------------------------------------
(* Snapshots of the project sync.                                          *)

ClusterLists == {<<CL_MYCLUSTER>>, <<CL_MY, CL_MYCLUSTER>>}

ProjectNames == {"project1", "project3"}
UserNames == {"user1", "user2"}

ProjectRecords(hours, members) ==
    [name : ProjectNames, cpu_hours : hours, gpu_hours : hours, members : members]

ProjectLists(hours, members) ==
    {<<>>}
    \cup {<<r>> : r \in ProjectRecords(hours, members)}
    \cup {<<r1, r2>> : r1 \in {r \in ProjectRecords(hours, members) : r.name = "project1"},
                       r2 \in {r \in ProjectRecords(hours, members) : r.name = "project3"}}

QosUniverse ==
    {qos_name_of(CL_MYCLUSTER, "project1"), qos_name_of(CL_MYCLUSTER, "project4"),
     qos_name_of(CL_MY, "project1"), <<"debug">>}

AccountUniverse ==
    {[Account |-> "project1", Cluster |-> CL_MYCLUSTER, Share |-> 1],
     [Account |-> "project5", Cluster |-> CL_MYCLUSTER, Share |-> 1],
     [Account |-> "project5", Cluster |-> CL_MY, Share |-> 1],
     [Account |-> "some_project", Cluster |-> CL_MYCLUSTER, Share |-> 1]}

ProjectUserUniverse ==
    {[User |-> "user1", Def_Acct |-> "project1", Account |-> "project1", Cluster |-> CL_MYCLUSTER],
     [User |-> "user2", Def_Acct |-> "project1", Account |-> "project1", Cluster |-> CL_MYCLUSTER],
     [User |-> "user1", Def_Acct |-> "project1", Account |-> "project3", Cluster |-> CL_MY]}

InitRun ==
    /\ pc = "start"
    /\ out = NoOut
    /\ plan = <<>>
    /\ n_executed = 0
    /\ exit_code = "none"
    /\ run = 1
    /\ prev_plan = <<>>
    /\ parsed = NoParsed

\* no listing is parsed and no license server is probed
InitNoParse ==
    /\ listing = NoListing
    /\ all_extern_data = NoExterns
    /\ probe = NoExterns

InitNoProjects ==
    /\ projects = <<>>
    /\ slurm_qos_info = {}
    /\ protected_accounts = {}

InitNoAccounts ==
    /\ account_page_vos = <<>>

InitNoLicenses ==
    /\ licenses = NoLicenses
    /\ resources = {}
    /\ scontrol = NoScontrol

\* the QoS budgets vary
InitProjectQos ==
    /\ clusters \in ClusterLists
    /\ projects \in ProjectLists(0..MaxHours, {{}})
    /\ slurm_qos_info \in SUBSET QosUniverse
    /\ slurm_account_info = {}
    /\ protected_accounts = {}
    /\ active_accounts = {}
    /\ slurm_user_info = {}

\* the observed QoS and accounts vary
InitProjectAccounts ==
    /\ clusters \in ClusterLists
    /\ projects \in ProjectLists({0}, {{}})
    /\ slurm_qos_info \in {{}, {qos_name_of(CL_MYCLUSTER, "project1")}}
    /\ slurm_account_info \in SUBSET AccountUniverse
    /\ protected_accounts \in {{}, {"some_project"}}
    /\ active_accounts = {}
    /\ slurm_user_info = {}

\* the members vary
InitProjectMembers ==
    /\ clusters = <<CL_MYCLUSTER>>
    /\ projects \in {<<r1, r2>> :
            r1 \in {r \in ProjectRecords({0}, SUBSET UserNames) : r.name = "project1"},
            r2 \in {r \in ProjectRecords({0}, SUBSET UserNames) : r.name = "project3"}}
    /\ slurm_qos_info = {}
    /\ slurm_account_info = {}
    /\ protected_accounts = {}
    /\ active_accounts \in SUBSET UserNames
    /\ slurm_user_info \in SUBSET ProjectUserUniverse

InitProjects ==
    /\ script = "projects"
    /\ dry_run \in BOOLEAN
    /\ opts = NoOpts
    /\ InitProjectQos \/ InitProjectAccounts \/ InitProjectMembers
    /\ InitNoAccounts
    /\ InitNoLicenses
    /\ InitNoParse
    /\ InitRun

NextProjects ==
    \/ sync_slurm_tier1_projects_main
    \/ execute_commands
    \/ next_run

SpecProjects == InitProjects /\ [][NextProjects]_vars

----------------------------------------------------------------------------
(* Snapshots of the account sync.                                          *)

\* the institute accounts and their default VOs, as slurm lists them
InstituteAccounts(cluster) ==
    LET table == INSTITUTE_VOS_BY_INSTITUTE(GENT)
    IN UNION {{[Account |-> table[i][1], Cluster |-> cluster,
                Share |-> INSTITUTE_FAIRSHARE(GENT)[table[i][1]]],
               [Account |-> table[i][2], Cluster |-> cluster,
                Share |-> institute_vos[table[i][2]].fairshare]} : i \in DOMAIN table}

VoRecord(id, fairshare, members) ==
    [vsc_id |-> id, institute |-> "gent", fairshare |-> fairshare, members |-> members]

\* sublists of gvo00001, gvo00012, gvo00002
VoLists(fairshares, members) ==
    {Flatten(<<a, b, c>>) :
        a \in {<<>>} \cup {<<VoRecord("gvo00001", f, m)>> : f \in fairshares, m \in members},
        b \in {<<>>, <<VoRecord("gvo00012", 100, {})>>},
        c \in {<<>>, <<VoRecord("gvo00002", 1, {})>>}}

\* the VOs and the observed accounts vary
InitAccountVos ==
    /\ clusters \in ClusterLists
    /\ account_page_vos \in VoLists(1..MaxFairshare, {{}})
    /\ \E present \in {{}, Range(clusters)},
          missing \in {{}, {"gent"}, {"gvo00012"}},
          share1 \in 0..MaxFairshare,
          others \in SUBSET {[Account |-> "gvo00003", Cluster |-> CL_MYCLUSTER, Share |-> 1],
                             [Account |-> "gvo00002", Cluster |-> CL_MY, Share |-> 1]} :
            slurm_account_info =
                {a \in UNION {InstituteAccounts(c) : c \in present} :
                    ~(a.Account \in missing /\ a.Cluster = CL_MYCLUSTER)}
                \cup (IF share1 = 0 THEN {}
                      ELSE {[Account |-> "gvo00001", Cluster |-> CL_MYCLUSTER, Share |-> share1]})
                \cup others
    /\ active_accounts = {}
    /\ slurm_user_info = {}
    /\ opts = NoOpts

\* the members and the observed users vary
InitAccountUsers ==
    /\ clusters = <<CL_MYCLUSTER>>
    /\ account_page_vos \in
          {<<VoRecord("gvo00001", 1, m1), VoRecord("gvo00002", 1, m2)>> :
              m1 \in SUBSET UserNames, m2 \in SUBSET UserNames}
    /\ slurm_account_info =
          InstituteAccounts(CL_MYCLUSTER)
          \cup {[Account |-> vo, Cluster |-> CL_MYCLUSTER, Share |-> 1] :
                  vo \in {"gvo00001", "gvo00002"}}
    /\ active_accounts \in SUBSET UserNames
    /\ \E f \in [UserNames -> {"", "gvo00001", "gvo00002", "gvo00003"}] :
          slurm_user_info =
              {[User |-> u, Def_Acct |-> f[u], Account |-> f[u], Cluster |-> CL_MYCLUSTER] :
                  u \in {x \in UserNames : f[x] # ""}}
              \cup {[User |-> "user1", Def_Acct |-> "gvo00001", Account |-> "gvo00001",
                     Cluster |-> CL_MY]}
    /\ opts = NoOpts

InitAccounts ==
    /\ script \in {"accounts", "sync_slurm_acct"}
    /\ dry_run \in BOOLEAN
    /\ InitAccountVos \/ InitAccountUsers
    /\ InitNoProjects
    /\ InitNoLicenses
    /\ InitNoParse
    /\ InitRun

NextAccounts ==
    \/ slurm_account_reconcilers
    \/ sync_slurm_acct_main
    \/ acct_execute_commands
    \/ next_run

SpecAccounts == InitAccounts /\ [][NextAccounts]_vars

----------------------------------------------------------------------------
(* Snapshots of the license sync.                                          *)

K1 == license_key("an1", "comp1")
K2 == license_key("an2", "comp1")
K3 == license_key("an3", "comp1")

\* a license as licenses_data returns it; a skipped one has no in_use (-1)
License(key, count, in_use, skip) ==
    [name |-> key[1], extern |-> key[3], type |-> "flexlm", count |-> count,
     in_use |-> IF skip THEN -1 ELSE in_use, skip |-> skip, fullname |-> <<>>]

Resource(key, type, count) ==
    [Name |-> key[1], Server |-> key[3], Type |-> type, Count |-> count, ServerType |-> "flexlm"]

Reservation(name, lics) == [ReservationName |-> name, Licenses |-> lics]

LicenseOpts(force_update) ==
    [NoOpts EXCEPT !.force_update = force_update,
                   !.reservation_cluster = CL_MYCLUSTER, !.reservation_partition = "part1",
                   !.resource_clusters = <<CL_MY, CL_MYCLUSTER>>]

\* the numbers of one license vary, with its reservation observed or not
InitLicenseNumbers ==
    /\ opts \in {LicenseOpts(f) : f \in BOOLEAN}
    /\ licenses \in {[k \in {K1} |-> License(K1, c, u, FALSE)] : c \in 1..MaxCount, u \in 0..MaxLic}
    /\ resources \in {{Resource(K1, "License", c)} : c \in 1..MaxCount}
    /\ scontrol \in
          {[ClusterName |-> CL_MYCLUSTER, partitions |-> {"part1"},
            licenses |-> l,
            reservations |-> r] :
              l \in {[k \in {K3} |-> [Used |-> 0, Reserved |-> 0]]}
                    \cup {[k \in {K1} |-> [Used |-> used, Reserved |-> reserved]] :
                             used \in 0..MaxLic, reserved \in 0..MaxLic},
              r \in {{}, {Reservation(make_license_reservation_name(K1), "an1")}}}

\* which licenses, resources and reservations exist varies
InitLicenseKeys ==
    /\ \E ir \in {{}, {"an2"}}, iv \in {{}, {make_license_reservation_name(K2)}} :
          opts = [LicenseOpts(FALSE) EXCEPT !.ignore_resources = ir, !.ignore_reservations = iv]
    /\ \E d \in [{K1, K2} -> {"absent", "present", "skip"}] :
          licenses = [k \in {x \in {K1, K2} : d[x] # "absent"} |->
                         License(k, 1, 1, d[k] = "skip")]
    /\ \E present \in SUBSET {K1, K2}, k3 \in {"absent", "License", "Other"} :
          resources = {Resource(k, "License", 1) : k \in present}
                      \cup (IF k3 = "absent" THEN {} ELSE {Resource(K3, k3, 1)})
    /\ \E present \in SUBSET {K1, K2, K3} :
          scontrol =
              [ClusterName |-> CL_MYCLUSTER, partitions |-> {"part1"},
               licenses |-> [k \in {K1, K2, K3} |-> [Used |-> 0, Reserved |-> 1]],
               reservations |->
                   {Reservation(make_license_reservation_name(k), k[1]) : k \in present}
                   \cup {Reservation(<<"maintenance">>, "")}]

\* the options and what scontrol reports vary
InitLicenseConfig ==
    /\ opts \in {[LicenseOpts(FALSE) EXCEPT !.reservation_cluster = c,
                                            !.reservation_partition = p,
                                            !.resource_clusters = rc] :
                    c \in {<<>>, CL_MY, CL_MYCLUSTER},
                    p \in {"", "part1", "part2"},
                    rc \in {<<CL_MYCLUSTER>>, <<CL_MY, CL_MYCLUSTER>>}}
    /\ licenses = [k \in {K1} |-> License(K1, 1, 1, FALSE)]
    /\ resources \in {{}, {Resource(K1, "License", 1), Resource(K3, "License", 1)}}
    /\ scontrol =
          [ClusterName |-> CL_MYCLUSTER, partitions |-> {"part1"},
           licenses |-> [k \in {K1, K3} |-> [Used |-> 0, Reserved |-> 1]],
           reservations |-> {Reservation(make_license_reservation_name(K3), "an3")}]

InitLicenses ==
    /\ script = "licenses"
    /\ dry_run \in BOOLEAN
    /\ clusters = <<>>
    /\ InitLicenseNumbers \/ InitLicenseKeys \/ InitLicenseConfig
    /\ InitNoProjects
    /\ InitNoAccounts
    /\ active_accounts = {}
    /\ slurm_account_info = {}
    /\ slurm_user_info = {}
    /\ InitNoParse
    /\ InitRun

NextLicenses ==
    \/ sync_slurm_external_licenses_main
    \/ execute_commands
    \/ next_run

SpecLicenses == InitLicenses /\ [][NextLicenses]_vars

----------------------------------------------------------------------------
(* The license data of sync_slurm_external_licenses.py.  all_extern_data   *)
(* is the JSON configuration, server by server: its license type and the   *)
(* count of each configured software; probe is what the license tool       *)
(* answers for a server: its exit code and the software it reports.        *)

FLEXLM == "flexlm"

\* retrieve_license_data: the tool's report, None for an unsupported license
\* type, an exception when the tool fails
retrieve_license_data(license_type, answer) ==
    IF license_type = FLEXLM
       THEN IF answer.ec # 0 THEN [kind |-> "raise", res |-> <<>>]
            ELSE [kind |-> "data", res |-> answer.reported]
       ELSE [kind |-> "none", res |-> <<>>]

\* lics.keys() raises AttributeError when lics is None
licenses_data_raises(extern_data, answers) ==
    \E extern \in DOMAIN extern_data :
        retrieve_license_data(extern_data[extern].license_type, answers[extern]).kind # "data"

\* the entry of licenses_data for the software soft of the server extern
license_entry(extern_data, answers, extern, soft) ==
    LET edata == extern_data[extern]
        lics == retrieve_license_data(edata.license_type, answers[extern]).res
        missing == DOMAIN edata.software \ DOMAIN lics
    IN [name |-> soft, extern |-> extern, type |-> edata.license_type,
        count |-> edata.software[soft].count,
        in_use |-> IF soft \in missing THEN -1 ELSE lics[soft].in_use,
        skip |-> soft \in missing, fullname |-> <<>>]

\* licenses_data when no probe raises: an entry name@extern for every
\* configured software
licenses_data(extern_data, answers) ==
    LET keys == {license_key(soft, extern) :
                    soft \in UNION {DOMAIN extern_data[e].software : e \in DOMAIN extern_data},
                    extern \in DOMAIN extern_data}
        configured == {k \in keys : k[1] \in DOMAIN extern_data[k[3]].software}
    IN [k \in configured |-> license_entry(extern_data, answers, k[3], k[1])]

\* main up to the call of licenses_data: an exception ends the script
licenses_data_main ==
    /\ script = "licenses_data"
    /\ pc = "start"
    /\ IF licenses_data_raises(all_extern_data, probe)
          THEN /\ exit_code' = "critical"
               /\ UNCHANGED licenses
          ELSE /\ exit_code' = "ok"
               /\ licenses' = licenses_data(all_extern_data, probe)
    /\ pc' = "done"
    /\ UNCHANGED <<inputs, parsed, out, plan, n_executed, run, prev_plan>>

----------------------------------------------------------------------------
(* Listings handed to the parsers.                                         *)

MaxLines == 3

AccountsHeader == <<"Account", "Cluster", "User", "Share">>
UsersHeader == <<"User", "Def Acct", "Cluster", "Account">>
ResourceHeader == <<"Name", "Server", "Type", "Count">>

\* data lines of "sacctmgr list accounts": an account, an association of a
\* user, the root account, an account of another institute, a short line
AccountLines ==
    {<<"gvo00012", "banette", "", "1">>,
     <<"gvo00012", "banette", "vsc40001", "1">>,
     <<"root", "banette", "", "1">>,
     <<"antwerpen", "banette", "", "1">>,
     <<"gvo00013">>}

\* data lines of "sacctmgr list users": two users, root, a short line
UserLines ==
    {<<"vsc40001", "gvo00012", "banette", "gvo00012">>,
     <<"vsc40002", "gvo00013", "banette", "gvo00013">>,
     <<"root", "root", "banette", "root">>,
     <<"vsc40003", "gvo00012">>}

\* data lines of "sacctmgr list resource": two resources, a count that is
\* no number, a short line
ResourceLines ==
    {<<"an1", "comp1", "License", "2">>,
     <<"an2", "comp1", "License", "1">>,
     <<"an3", "comp1", "License", "many">>,
     <<"an4", "comp1">>}

\* lines of "scontrol show license": two licenses, a token without "=", a
\* license without counters, an empty line, the answer "No licenses"
LicenseLines ==
    {<<<<"LicenseName", "an1@comp1">>, <<"Total", "2">>, <<"Used", "0">>, <<"Free", "2">>, <<"Reserved", "0">>>>,
     <<<<"LicenseName", "an2@comp1">>, <<"Total", "1">>, <<"Used", "1">>, <<"Free", "0">>, <<"Reserved", "(null)">>>>,
     <<<<"LicenseName", "an3@comp1">>, <<"Total">>, <<"Used", "0">>, <<"Free", "2">>, <<"Reserved", "0">>>>,
     <<<<"LicenseName", "an4@comp1">>>>,
     <<>>,
     <<<<"No">>, <<"licenses">>>>}

\* the sequences of at most MaxLines elements of S
Listings(S) == UNION {[1..n -> S] : n \in 0..MaxLines}

ListingOf(parser, info_type, header, lines, exclude) ==
    [parser |-> parser, info_type |-> info_type, header |-> header, lines |-> lines,
     exclude |-> exclude]

InitListing ==
    \/ listing \in {ListingOf(p, "accounts", h, l, x) :
                       p \in {"sacctmgr", "sync"},
                       h \in {AccountsHeader, <<"Account", "Cluster", "Share">>},
                       l \in Listings(AccountLines),
                       x \in {{}, {"antwerpen"}}}
    \/ listing \in {ListingOf(p, "users", UsersHeader, l, {}) :
                       p \in {"sacctmgr", "sync"}, l \in Listings(UserLines)}
    \/ listing \in {ListingOf("sacctmgr", "resource", ResourceHeader, l, {}) :
                       l \in Listings(ResourceLines)}
    \/ listing \in {ListingOf("scontrol", "license", <<>>, l, {}) :
                       l \in Listings(LicenseLines)}

InitParse ==
    /\ script = "parse"
    /\ dry_run = FALSE
    /\ clusters = <<>>
    /\ opts = NoOpts
    /\ InitListing
    /\ all_extern_data = NoExterns
    /\ probe = NoExterns
    /\ InitNoProjects
    /\ InitNoAccounts
    /\ InitNoLicenses
    /\ active_accounts = {}
    /\ slurm_account_info = {}
    /\ slurm_user_info = {}
    /\ InitRun

NextParse ==
    \/ parse_dump

SpecParse == InitParse /\ [][NextParse]_vars

----------------------------------------------------------------------------
(* License servers and what they answer.                                   *)

\* the software that may be configured on a server
SoftwareOf(extern) == IF extern = "comp1" THEN {"an1", "an2"} ELSE {"an3"}

\* the configurations of one server
ExternData(extern) ==
    {[license_type |-> t, software |-> [soft \in c |-> [count |-> 1]]] :
        t \in {FLEXLM, "rlm"}, c \in SUBSET SoftwareOf(extern) \ {{}}}

\* the answers of the tool for one server
Answers(extern) ==
    {[ec |-> ec, reported |-> [soft \in r |-> [total |-> 1, in_use |-> 0]]] :
        ec \in {0, 1}, r \in SUBSET SoftwareOf(extern)}

InitLicensesData ==
    /\ script = "licenses_data"
    /\ dry_run = FALSE
    /\ clusters = <<>>
    /\ opts = LicenseOpts(FALSE)
    /\ \E externs \in SUBSET {"comp1", "comp2"} \ {{}} :
          /\ all_extern_data \in {[e \in externs |-> d[e]] :
                                     d \in [{"comp1", "comp2"} ->
                                              ExternData("comp1") \cup ExternData("comp2")]}
          /\ \A e \in externs : all_extern_data[e] \in ExternData(e)
          /\ probe \in {[e \in externs |-> d[e]] :
                           d \in [{"comp1", "comp2"} -> Answers("comp1") \cup Answers("comp2")]}
          /\ \A e \in externs : probe[e] \in Answers(e)
    /\ listing = NoListing
    /\ InitNoProjects
    /\ InitNoAccounts
    /\ InitNoLicenses
    /\ active_accounts = {}
    /\ slurm_account_info = {}
    /\ slurm_user_info = {}
    /\ InitRun

NextLicensesData ==
    \/ licenses_data_main

SpecLicensesData == InitLicensesData /\ [][NextLicensesData]_vars

----------------------------------------------------------------------------
(* Any of the scripts, a parser call or a call of licenses_data.            *)

Init == InitProjects \/ InitAccounts \/ InitLicenses \/ InitParse \/ InitLicensesData

Next ==
    \/ sync_slurm_tier1_projects_main
    \/ slurm_account_reconcilers
    \/ sync_slurm_acct_main
    \/ sync_slurm_external_licenses_main
    \/ execute_commands
    \/ acct_execute_commands
    \/ next_run
    \/ parse_dump
    \/ licenses_data_main

Spec == Init /\ [][Next]_vars

----------------------------------------------------------------------------
(* Properties.                                                             *)

\* the commands execute_commands has run
executed == SubSeq(plan, 1, n_executed)

is_scancel(c) == c.tool = SLURM_SCANCEL
is_add_account(c) == c.verb = "add" /\ c.entity = "account"
is_remove_account(c) == c.verb = "delete" /\ c.entity = "account"
is_qos_add_or_modify(c) == c.entity = "qos" /\ c.verb \in {"add", "modify"}
is_removal(c) == c.verb \in {"delete", "remove"}

\* C3: in the assembled project plan no add-QoS or modify-QoS command for
\* QoS C-P comes after the add-account command for P on C, and no job-cancel
\* command for account A (on a cluster) comes after the remove-account
\* command for A (on that cluster).
C3_PlanOrdering ==
    script = "projects" =>
        \A i, j \in DOMAIN plan :
            /\ ( /\ is_add_account(plan[i])
                 /\ is_qos_add_or_modify(plan[j])
                 /\ plan[j].qos = qos_name_of(plan[i].cluster, plan[i].account) ) => j < i
            /\ ( /\ is_remove_account(plan[i])
                 /\ is_scancel(plan[j])
                 /\ plan[j].account = plan[i].account
                 /\ plan[j].cluster = plan[i].cluster ) => j < i

\* a plan that adds a QoS and the account of the same project and removes an
\* account after cancelling its jobs
C3_Witness ==
    /\ script = "projects"
    /\ pc = "done"
    /\ \E i, j \in DOMAIN plan :
          /\ is_add_account(plan[i])
          /\ plan[j].entity = "qos" /\ plan[j].verb = "add"
          /\ plan[j].qos = qos_name_of(plan[i].cluster, plan[i].account)
    /\ \E i, j \in DOMAIN plan :
          /\ is_remove_account(plan[i])
          /\ is_scancel(plan[j])
          /\ plan[j].account = plan[i].account

\* C4: a second run on the same snapshots assembles the same plan as the
\* first, the same commands in the same order.
C4_Determinism ==
    (run > 1 /\ pc = "done") => plan = prev_plan

\* the distinct users whose jobs the job-cancellation bucket of
\* slurm_user_accounts cancels on the snapshots of the run
job_cancel_users ==
    IF slurm_user_accounts_raises(account_page_vos, active_accounts, slurm_user_info,
                                  clusters, dry_run)
       THEN {}
       ELSE UNION {{c.user : c \in Range(r[1])} :
                      r \in slurm_user_accounts(account_page_vos, active_accounts,
                                                slurm_user_info, clusters, dry_run)}

\* C5: when the jobs of more distinct users than the configured threshold
\* would be cancelled (the account sync has no override to set), the run of
\* the account sync ends with the circuit-breaker error and has executed no
\* scancel and no removal command.
C5_CircuitBreaker ==
    (script = "sync_slurm_acct" /\ pc # "start") =>
        \A threshold \in 0..Cardinality(UserNames) :
            Cardinality(job_cancel_users) > threshold =>
                /\ pc = "done"
                /\ exit_code = "circuit_breaker"
                /\ \A c \in Range(executed) : ~is_scancel(c) /\ ~is_removal(c)

\* C6: the quantity an existing license reservation is updated to is
\* max(0, in_use - Used), never negative; used=5, in_use=3 gives 0 and
\* used=2, in_use=7 gives 5.
C6_ReservationArithmetic ==
    /\ reservation_value(5, 3) = 0
    /\ reservation_value(2, 7) = 5
    /\ (script = "licenses" /\ pc # "start") =>
          \A c \in Range(out["scontrol_new_update"]) :
              c.verb = "update" =>
                  /\ c.value >= 0
                  /\ c.value = Max(0, licenses[c.licenses].in_use
                                      - scontrol.licenses[c.licenses].Used)

\* a reservation was updated to 0 because slurm reports more licenses used
\* than the server
C6_Witness ==
    /\ script = "licenses"
    /\ pc = "done"
    /\ \E c \in Range(out["scontrol_new_update"]) :
          /\ c.verb = "update"
          /\ c.value = 0
          /\ scontrol.licenses[c.licenses].Used > licenses[c.licenses].in_use

\* the position of a command in the order of the license plan
license_plan_class(c) ==
    CASE c.entity = "resource" /\ c.verb \in {"add", "modify"} -> 1
      [] c.entity = "reservation" /\ c.verb \in {"create", "update"} -> 2
      [] c.entity = "reservation" /\ c.verb = "delete" -> 3
      [] c.entity = "resource" /\ c.verb = "remove" -> 4
      [] OTHER -> 0

\* C7: in the license plan every resource add/modify command precedes every
\* reservation create/update command, which precedes every reservation
\* delete command, which precedes every resource remove command.
C7_LicensePlanOrder ==
    script = "licenses" =>
        /\ \A i \in DOMAIN plan : license_plan_class(plan[i]) # 0
        /\ \A i, j \in DOMAIN plan :
              i < j => license_plan_class(plan[i]) <= license_plan_class(plan[j])

\* a plan with a command of each of the four classes
C7_Witness ==
    /\ script = "licenses"
    /\ pc = "done"
    /\ \A n \in 1..4 : \E i \in DOMAIN plan : license_plan_class(plan[i]) = n

\* the command c targets the resource or the reservation of license key k
targets_license(c, k) ==
    \/ c.entity = "resource" /\ license_key(c.name, c.server) = k
    \/ c.entity = "reservation" /\ c.reservation = make_license_reservation_name(k)

\* C8: no command of update_licenses or update_license_reservations targets
\* the resource or the reservation of a license key whose record carries
\* skip, observed or not.
C8_SkipMarker ==
    script = "licenses" =>
        \A k \in DOMAIN licenses :
            licenses[k].skip =>
                \A c \in Range(out["sacct_new_update"] \o out["sacct_remove"]
                               \o out["scontrol_new_update"] \o out["scontrol_remove"]
                               \o plan) :
                    ~targets_license(c, k)

\* both reconcilers have returned for a skipped license whose resource and
\* reservation are observed, and for one whose are not
C8_Witness ==
    /\ script = "licenses"
    /\ pc = "done"
    /\ exit_code = "ok"
    /\ plan # <<>>
    /\ \E k \in DOMAIN licenses :
          /\ licenses[k].skip
          /\ \E r \in resources : license_key(r.Name, r.Server) = k /\ r.Type = "License"
          /\ \E r \in scontrol.reservations :
                r.ReservationName = make_license_reservation_name(k)

\* C9: when the reservation cluster or partition option is missing, the
\* cluster is not the ClusterName slurm reports, or the partition is not a
\* live partition, the run fails and executes no command.
C9_FatalConfiguration ==
    ( /\ script = "licenses"
      /\ pc # "start"
      /\ \/ opts.reservation_cluster = <<>>
         \/ opts.reservation_partition = ""
         \/ opts.reservation_cluster # scontrol.ClusterName
         \/ opts.reservation_partition \notin scontrol.partitions )
    => /\ pc = "done"
       /\ exit_code = "critical"
       /\ n_executed = 0
       /\ plan = <<>>

\* the run failed on the wrong cluster after update_licenses had computed
\* resource commands
C9_Witness ==
    /\ script = "licenses"
    /\ pc = "done"
    /\ exit_code = "critical"
    /\ opts.reservation_cluster # <<>>
    /\ opts.reservation_partition # ""
    /\ opts.reservation_cluster # scontrol.ClusterName
    /\ out["sacct_new_update"] # <<>>
    /\ ~dry_run

\* C10: the add/modify bucket slurm_user_accounts returns holds no scancel
\* command and no command that removes a user or a user's association.
C10_ThreeBuckets ==
    script = "accounts" =>
        \A c \in Range(out["commands"]) : ~is_scancel(c) /\ ~is_removal(c)

----------------------------------------------------------------------------
(* Desired and observed state of each entity, for C1 and C2.               *)

observed_accounts(cluster) == {a.Account : a \in {x \in slurm_account_info : x.Cluster = cluster}}

institute_names == {"antwerpen", "brussel", "gent", "leuven"}
default_vo_names == {"gvo00012", "gvo00016", "gvo00017", "gvo00018"}

desired_vos == {vo \in Range(account_page_vos) : vo.vsc_id \notin default_vo_names}
desired_projects == {projects[i].name : i \in DOMAIN projects}
desired_qos(cluster) == {cluster \o <<"-", p>> : p \in desired_projects}
active_vo_members_of == UNION {vo.members \cap active_accounts : vo \in Range(account_page_vos)}

\* the QoS names of the form <cluster>-<name>
qos_of_cluster(cluster) == {n \in slurm_qos_info : startswith(n, cluster \o <<"-">>)}

\* the license resources and the license reservations the sync manages
managed_resources ==
    {r \in resources : r.Type = "License" /\ r.Name \notin opts.ignore_resources}
managed_resource_keys == {license_key(r.Name, r.Server) : r \in managed_resources}
managed_reservations ==
    {r.ReservationName :
        r \in {x \in scontrol.reservations :
                  /\ x.Licenses # ""
                  /\ Head(x.ReservationName) = "external_license_"
                  /\ x.ReservationName \notin opts.ignore_reservations}}
desired_licenses == {k \in DOMAIN licenses : ~licenses[k].skip}
skipped_licenses == {k \in DOMAIN licenses : licenses[k].skip}
reservation_name_of(k) == <<"external_license_">> \o k

\* the reconcilers of the script have returned
accounts_reconciled == script = "accounts" /\ pc # "start" /\ exit_code # "critical"
projects_reconciled == script = "projects" /\ pc # "start"
resources_reconciled ==
    /\ script = "licenses"
    /\ pc # "start"
    /\ opts.reservation_cluster \in Range(opts.resource_clusters)
    /\ opts.reservation_partition # ""
reservations_reconciled ==
    /\ resources_reconciled
    /\ opts.reservation_cluster = scontrol.ClusterName
    /\ opts.reservation_partition \in scontrol.partitions
    /\ \A k \in desired_licenses :
          reservation_name_of(k) \in managed_reservations => k \in DOMAIN scontrol.licenses

InSyncInstitutes ==
    \A c \in Range(clusters) : (institute_names \cup default_vo_names) \subseteq observed_accounts(c)

InSyncVos ==
    \A c \in Range(clusters) : \A vo \in desired_vos :
        \E a \in slurm_account_info :
            a.Cluster = c /\ a.Account = vo.vsc_id /\ a.Share = vo.fairshare

InSyncProjectAccounts ==
    \A c \in Range(clusters) : observed_accounts(c) = desired_projects

InSyncQos ==
    \A c \in Range(clusters) : qos_of_cluster(c) = desired_qos(c)

InSyncVoMembers ==
    \A c \in Range(clusters) :
        /\ {u.User : u \in {x \in slurm_user_info : x.Cluster = c}} = active_vo_members_of
        /\ \A u \in {x \in slurm_user_info : x.Cluster = c} :
              \E vo \in Range(account_page_vos) : vo.vsc_id = u.Def_Acct /\ u.User \in vo.members

InSyncProjectMembers ==
    \A c \in Range(clusters) : \A i \in DOMAIN projects :
        {u.User : u \in {x \in slurm_user_info : x.Cluster = c /\ x.Account = projects[i].name}}
            = projects[i].members \cap active_accounts

InSyncResources ==
    /\ managed_resource_keys \ skipped_licenses = desired_licenses
    /\ \A r \in managed_resources :
          license_key(r.Name, r.Server) \in desired_licenses
              => r.Count = licenses[license_key(r.Name, r.Server)].count

InSyncReservations ==
    /\ managed_reservations \ {reservation_name_of(k) : k \in skipped_licenses}
          = {reservation_name_of(k) : k \in desired_licenses}
    /\ \A k \in desired_licenses :
          /\ k \in DOMAIN scontrol.licenses
          /\ scontrol.licenses[k].Reserved
                = Max(0, licenses[k].in_use - scontrol.licenses[k].Used)

\* the reconcilers the claim of an empty list holds for
EmptyWhenInSync ==
    /\ (accounts_reconciled /\ InSyncInstitutes) => out["institutes"] = <<>>
    /\ (accounts_reconciled /\ InSyncVos) => out["vos"] = <<>>
    /\ (accounts_reconciled /\ InSyncVoMembers)
          => out["job_cancel"] = <<>> /\ out["commands"] = <<>>
    /\ (projects_reconciled /\ InSyncProjectAccounts) => out["accounts"] = <<>>
    /\ (projects_reconciled /\ InSyncProjectMembers) => out["users"] = <<>>

account_names == desired_projects \cup {a.Account : a \in slurm_account_info}

\* project accounts: one add for a desired account the cluster lacks; one
\* delete, after a PENDING and a SUSPENDED job cancel, for an observed account
\* that is neither desired nor protected
CompleteProjectAccounts ==
    projects_reconciled =>
        \A cl \in Range(clusters) : \A name \in account_names :
            LET cmds == out["accounts"]
                on(c) == c.account = name /\ c.cluster = cl
                adds == {i \in DOMAIN cmds : on(cmds[i]) /\ is_add_account(cmds[i])}
                removes == {i \in DOMAIN cmds : on(cmds[i]) /\ is_remove_account(cmds[i])}
                cancels(state) ==
                    {i \in DOMAIN cmds : on(cmds[i]) /\ is_scancel(cmds[i]) /\ cmds[i].state = state}
            IN /\ (name \in desired_projects /\ name \notin observed_accounts(cl))
                     => Cardinality(adds) = 1
               /\ ( /\ name \in observed_accounts(cl)
                    /\ name \notin desired_projects
                    /\ name \notin protected_accounts )
                     => /\ Cardinality(removes) = 1
                        /\ Cardinality(cancels("PENDING")) = 1
                        /\ Cardinality(cancels("SUSPENDED")) = 1
                        /\ Cardinality({i \in DOMAIN cmds : on(cmds[i]) /\ is_scancel(cmds[i])}) = 2
                        /\ \A i \in cancels("PENDING") \cup cancels("SUSPENDED") :
                              \A j \in removes : i < j

\* project QoS: one add for a desired QoS that is not observed; for an
\* observed QoS <cluster>-<name> that is not desired at least one remove,
\* and one only when no other listed cluster's name is a prefix of it
CompleteProjectQos ==
    projects_reconciled =>
        \A cl \in Range(clusters) :
            /\ \A q \in desired_qos(cl) \ slurm_qos_info :
                  Cardinality({i \in DOMAIN out["qos"] :
                                  out["qos"][i].verb = "add" /\ out["qos"][i].qos = q}) = 1
            /\ \A q \in qos_of_cluster(cl) \ desired_qos(cl) :
                  LET removes == {i \in DOMAIN out["qos"] :
                                     out["qos"][i].verb = "remove" /\ out["qos"][i].qos = q}
                  IN /\ Cardinality(removes) >= 1
                     /\ (\A other \in Range(clusters) \ {cl} : ~startswith(q, other))
                           => Cardinality(removes) = 1

\* VO accounts: one add for a desired VO, not an institute's default VO,
\* that has no account on the cluster
CompleteVoCreation ==
    accounts_reconciled =>
        \A cl \in Range(clusters) : \A vo \in desired_vos :
            vo.vsc_id \notin observed_accounts(cl) =>
                Cardinality({i \in DOMAIN out["vos"] :
                                /\ is_add_account(out["vos"][i])
                                /\ out["vos"][i].account = vo.vsc_id
                                /\ out["vos"][i].cluster = cl
                                /\ out["vos"][i].fairshare = vo.fairshare}) = 1

\* VO accounts: one removal for an observed account that is no desired VO,
\* no institute and no institute's default VO
CompleteVoRemoval ==
    accounts_reconciled =>
        \A cl \in Range(clusters) :
            \A name \in observed_accounts(cl)
                          \ ({vo.vsc_id : vo \in Range(account_page_vos)}
                             \cup institute_names \cup default_vo_names) :
                Cardinality({i \in DOMAIN out["vos"] :
                                /\ is_remove_account(out["vos"][i])
                                /\ out["vos"][i].account = name
                                /\ out["vos"][i].cluster = cl}) = 1

\* license resources: one add for a desired key, not skipped, without a
\* managed resource; one remove for a managed resource that is not desired
CompleteResources ==
    resources_reconciled =>
        LET cmds == out["sacct_new_update"] \o out["sacct_remove"]
            n(k, verb) == Cardinality({i \in DOMAIN cmds :
                              /\ cmds[i].entity = "resource" /\ cmds[i].verb = verb
                              /\ license_key(cmds[i].name, cmds[i].server) = k})
        IN /\ \A k \in desired_licenses \ managed_resource_keys : n(k, "add") = 1
           /\ \A k \in managed_resource_keys \ DOMAIN licenses : n(k, "remove") = 1

\* license reservations: one create for a desired key, not skipped, without
\* a managed reservation; one delete for a managed reservation not desired
CompleteReservations ==
    reservations_reconciled =>
        LET cmds == out["scontrol_new_update"] \o out["scontrol_remove"]
            n(r, verb) == Cardinality({i \in DOMAIN cmds :
                              /\ cmds[i].entity = "reservation" /\ cmds[i].verb = verb
                              /\ cmds[i].reservation = r})
        IN /\ \A k \in desired_licenses :
                 reservation_name_of(k) \notin managed_reservations
                     => n(reservation_name_of(k), "create") = 1
           /\ \A r \in managed_reservations \ {reservation_name_of(k) : k \in DOMAIN licenses} :
                 n(r, "delete") = 1

----------------------------------------------------------------------------
(* The VO-member reconciler of sync.py, user by user.                      *)

\* the users slurm lists on the cluster
observed_users(cluster) == {u.User : u \in {x \in slurm_user_info : x.Cluster = cluster}}

\* slurm_user_accounts was called and has returned or raised
user_accounts_called == script = "accounts" /\ pc = "done"

\* the positions of seq that hold a job-cancel command for the user on the cluster
user_job_cancels(seq, user, cluster) ==
    {i \in DOMAIN seq : is_scancel(seq[i]) /\ seq[i].user = user /\ seq[i].cluster = cluster}

\* the positions of seq that remove the user from the whole cluster
user_removals(seq, user, cluster) ==
    {i \in DOMAIN seq :
        /\ seq[i].verb = "delete" /\ seq[i].entity = "user"
        /\ seq[i].user = user /\ seq[i].cluster = cluster /\ seq[i].account = ""}

\* C11: for each cluster, every observed user that is an active member of no
\* VO gets exactly one job-cancel command for that cluster and user and
\* exactly one remove-user command for the whole cluster; an observed user
\* that is an active member of some VO gets no whole-cluster remove-user
\* command.
C11_RemovedUsers ==
    user_accounts_called =>
        \A cl \in Range(clusters) : \A u \in observed_users(cl) :
            IF u \notin active_vo_members_of
               THEN /\ Cardinality(user_job_cancels(out["job_cancel"], u, cl)) = 1
                    /\ Cardinality(user_removals(out["commands"], u, cl)) = 1
               ELSE user_removals(out["commands"], u, cl) = {}

\* the positions of seq that hold the given command of a user on a cluster
user_commands(seq, verb, user, account, default_account, cluster) ==
    {i \in DOMAIN seq :
        /\ seq[i].verb = verb /\ seq[i].entity = "user"
        /\ seq[i].user = user /\ seq[i].cluster = cluster
        /\ seq[i].account = account /\ seq[i].default_account = default_account}

\* the active user, observed on the cluster with default account v, has left
\* VO v and is a member of VO w
has_moved(user, cluster, v, w) ==
    /\ user \in active_accounts
    /\ <<user, v.vsc_id>> \in cluster_users_acct_of(slurm_user_info, cluster)
    /\ user \notin v.members
    /\ user \in w.members

\* the plan holds the four commands that move the user from v to w on the
\* cluster, once each, the add before the change of the default account and
\* that before the removal of the old association
move_planned(user, cluster, v, w) ==
    LET cmds == out["commands"]
        add == user_commands(cmds, "add", user, w.vsc_id, "", cluster)
        default == user_commands(cmds, "modify", user, "", w.vsc_id, cluster)
        remove == user_commands(cmds, "delete", user, v.vsc_id, "", cluster)
        cancel == {i \in user_job_cancels(out["job_cancel"], user, cluster) :
                      out["job_cancel"][i].account = v.vsc_id}
    IN /\ Cardinality(add) = 1
       /\ Cardinality(default) = 1
       /\ Cardinality(remove) = 1
       /\ Cardinality(cancel) = 1
       /\ \A i \in add, j \in default, k \in remove : i < j /\ j < k

\* C12: for each cluster and each active user observed with default account
\* v who has left VO v and is a member of VO w, the plan holds exactly one
\* add-user command to w, one modify-user command setting DefaultAccount=w,
\* one job-cancel command for (cluster, user, account v) and one command
\* removing the (user, v) association; the add comes before the change of
\* the default account, which comes before the removal.
C12_MovedUsers ==
    user_accounts_called =>
        \A cl \in Range(clusters) : \A u \in UserNames :
            \A v, w \in Range(account_page_vos) :
                has_moved(u, cl, v, w) => move_planned(u, cl, v, w)

\* an active user observed with default account v has left VO v and is a
\* member of no VO
reverse_lookup_anomaly ==
    \E cl \in Range(clusters) : \E u \in active_accounts : \E v \in Range(account_page_vos) :
        /\ <<u, v.vsc_id>> \in cluster_users_acct_of(slurm_user_info, cl)
        /\ u \notin v.members
        /\ \A w \in Range(account_page_vos) : u \notin w.members

\* C20: when an active user observed with default account v is a member of
\* no VO, slurm_user_accounts still returns a plan, in normal and in dry-run
\* mode, and every other moved user, the users leaving the same VO v
\* included, still gets its move commands.
C20_ReverseLookupRecoverable ==
    (user_accounts_called /\ reverse_lookup_anomaly) =>
        /\ exit_code = "ok"
        /\ \A cl \in Range(clusters) : \A u \in UserNames :
              \A v, w \in Range(account_page_vos) :
                  has_moved(u, cl, v, w) => move_planned(u, cl, v, w)

----------------------------------------------------------------------------
(* The project reconcilers of sync.py, command by command.                 *)

\* C13: slurm_project_accounts returns a job-cancel or a remove-account
\* command for account A on cluster C only if C is a listed cluster, A is
\* observed on C, A is not a desired project and A is not protected; a
\* protected account, a desired account and an account observed only on
\* another cluster get none.
C13_ProtectedAccounts ==
    projects_reconciled =>
        \A c \in Range(out["accounts"]) :
            (is_scancel(c) \/ is_remove_account(c)) =>
                /\ c.cluster \in Range(clusters)
                /\ c.account \in observed_accounts(c.cluster)
                /\ c.account \notin desired_projects
                /\ c.account \notin protected_accounts

\* slurm_project_accounts has returned for a protected account that is
\* observed and not desired, and has removed an account from one cluster
\* that another listed cluster does not have
C13_Witness ==
    /\ projects_reconciled
    /\ pc = "done"
    /\ \E a \in protected_accounts : \E cl \in Range(clusters) :
          a \in observed_accounts(cl) /\ a \notin desired_projects
    /\ \E c \in Range(out["accounts"]) :
          /\ is_remove_account(c)
          /\ \E cl \in Range(clusters) : cl # c.cluster /\ c.account \notin observed_accounts(cl)
    /\ \E c \in Range(out["accounts"]) : is_add_account(c)

----------------------------------------------------------------------------
(* The VO reconciler of sync.py, VO by VO.                                 *)

\* the positions of seq that hold the given command of an account on a cluster
account_commands(seq, verb, account, cluster) ==
    {i \in DOMAIN seq :
        /\ seq[i].verb = verb /\ seq[i].entity = "account"
        /\ seq[i].account = account /\ seq[i].cluster = cluster}

\* the fairshare slurm lists for the account on the cluster
observed_share(account, cluster) ==
    (CHOOSE a \in slurm_account_info : a.Account = account /\ a.Cluster = cluster).Share

\* C14: for each cluster and each desired VO that is not a default VO of an
\* institute, slurm_vo_accounts returns exactly one add-account command
\* (Parent the VO's institute, Fairshare the VO's fairshare) when the VO has
\* no account on the cluster, exactly one fairshare-modify command and no
\* add when its account has another fairshare, and no command when the
\* fairshare is equal; a default VO gets no command.
C14_VoAccounts ==
    user_accounts_called =>
        /\ \A c \in Range(out["vos"]) :
              c.cluster \in Range(clusters) /\ c.account \in {vo.vsc_id : vo \in desired_vos}
        /\ \A cl \in Range(clusters) : \A vo \in Range(account_page_vos) :
              LET adds == account_commands(out["vos"], "add", vo.vsc_id, cl)
                  mods == account_commands(out["vos"], "modify", vo.vsc_id, cl)
              IN IF vo.vsc_id \in default_vo_names
                    THEN adds = {} /\ mods = {}
                 ELSE IF vo.vsc_id \notin observed_accounts(cl)
                    THEN /\ Cardinality(adds) = 1
                         /\ mods = {}
                         /\ \A i \in adds : /\ out["vos"][i].parent = vo.institute
                                            /\ out["vos"][i].fairshare = vo.fairshare
                 ELSE IF vo.fairshare # observed_share(vo.vsc_id, cl)
                    THEN /\ adds = {}
                         /\ Cardinality(mods) = 1
                         /\ \A i \in mods : out["vos"][i].fairshare = vo.fairshare
                 ELSE adds = {} /\ mods = {}

\* slurm_vo_accounts has returned an add and a fairshare change for a VO, no
\* command for a VO whose fairshare is as observed, and none for a listed
\* default VO that has no account on a cluster
C14_Witness ==
    /\ user_accounts_called
    /\ \E c \in Range(out["vos"]) : c.verb = "add"
    /\ \E c \in Range(out["vos"]) : c.verb = "modify"
    /\ \E cl \in Range(clusters) : \E vo \in desired_vos :
          /\ vo.vsc_id \in observed_accounts(cl)
          /\ vo.fairshare = observed_share(vo.vsc_id, cl)
    /\ \E cl \in Range(clusters) : \E vo \in Range(account_page_vos) :
          vo.vsc_id \in default_vo_names /\ vo.vsc_id \notin observed_accounts(cl)

----------------------------------------------------------------------------
(* The QoS reconciler of sync.py, QoS by QoS.                              *)

\* the positions of seq that hold the given command of a QoS
qos_commands(seq, verb, name) ==
    {i \in DOMAIN seq : seq[i].verb = verb /\ seq[i].entity = "qos" /\ seq[i].qos = name}

C16_QosCleanup ==
    projects_reconciled =>
        \A qos_cleanup \in BOOLEAN : \A protected_qos \in SUBSET slurm_qos_info :
            \A name \in slurm_qos_info \cup {c.qos : c \in Range(out["qos"])} :
                qos_commands(out["qos"], "remove", name) # {}
                    <=> /\ qos_cleanup
                        /\ name \notin protected_qos
                        /\ \E cl \in Range(clusters) :
                              /\ name \in get_cluster_qos(slurm_qos_info, cl)
                              /\ name \notin desired_qos(cl)

\* C17: with a shared default account as an input of
\* slurm_project_users_accounts, every user newly added to a project account
\* who has no association to the default account also gets an add-user
\* command for the default account with DefaultAccount set to it, before the
\* add-user command for the project account; a user already associated with
\* the default account gets no add-user command for it.
C17_SharedDefaultAccount ==
    projects_reconciled =>
        \A default_account \in {"default_account"} :
            LET associated(u, cl) ==
                    \E x \in slurm_user_info :
                        x.User = u /\ x.Cluster = cl /\ x.Account = default_account
                default_adds(u, cl) ==
                    user_commands(out["users"], "add", u, default_account, default_account, cl)
            IN /\ \A j \in DOMAIN out["users"] :
                     LET c == out["users"][j]
                     IN ( /\ c.verb = "add" /\ c.entity = "user"
                          /\ c.account # default_account
                          /\ ~associated(c.user, c.cluster) )
                        => \E i \in default_adds(c.user, c.cluster) : i < j
               /\ \A cl \in Range(clusters) : \A u \in UserNames :
                     associated(u, cl) => default_adds(u, cl) = {}

----------------------------------------------------------------------------
(* The license reconcilers, license by license.                            *)

\* the positions of seq that hold the given command of the license resource
resource_commands(seq, verb, k) ==
    {i \in DOMAIN seq :
        /\ seq[i].verb = verb /\ seq[i].entity = "resource"
        /\ license_key(seq[i].name, seq[i].server) = k}

\* the positions of seq that hold the given command of the license reservation
reservation_commands(seq, verb, k) ==
    {i \in DOMAIN seq :
        /\ seq[i].verb = verb /\ seq[i].entity = "reservation"
        /\ seq[i].reservation = reservation_name_of(k)}

\* the Count slurm lists for the resource of the license
observed_count(k) ==
    (CHOOSE r \in managed_resources : license_key(r.Name, r.Server) = k).Count

----------------------------------------------------------------------------
(* Job cancellation.                                                       *)

\* every command the reconcilers of the run have returned
returned_commands == UNION {Range(out[b]) : b \in Buckets}

\* C19: every job-cancel command of a plan, for an account, for a removed
\* user or for the old account of a moved user, is restricted to PENDING or
\* to SUSPENDED jobs, and comes with the command of the same scope for the
\* other state.
C19_JobCancelStates ==
    \A c \in returned_commands :
        is_scancel(c) =>
            /\ c.state \in {"PENDING", "SUSPENDED"}
            /\ \E d \in returned_commands :
                  /\ is_scancel(d)
                  /\ d.state \in {"PENDING", "SUSPENDED"} \ {c.state}
                  /\ d.cluster = c.cluster /\ d.user = c.user /\ d.account = c.account

----------------------------------------------------------------------------
(* The parsers, line by line.                                              *)

parser_called == script = "parse" /\ pc = "done"

\* the header as the dump parsers read it
listing_header == [i \in DOMAIN listing.header |-> header_name(listing.header[i])]

\* the listing has the columns its parser looks up
header_complete ==
    listing.info_type = "accounts" =>
        field_number(listing_header, "user") # 0 /\ field_number(listing_header, "account") # 0

\* what the line parser of the listing gives for its i-th data line
line_result(i) ==
    CASE listing.parser = "sacctmgr" ->
             parse_slurm_sacct_line(listing_header, listing.lines[i], listing.info_type,
                                    field_number(listing_header, "user"),
                                    field_number(listing_header, "account"), listing.exclude)
      [] listing.parser = "sync" ->
             parse_slurm_acct_line(listing_header, listing.lines[i], listing.info_type,
                                   field_number(listing_header, "user"),
                                   field_number(listing_header, "account"), listing.exclude)
      [] listing.parser = "scontrol" ->
             IF listing.lines[i] = <<>> THEN nothing
             ELSE parse_scontrol_line(listing.lines[i], listing.info_type)

malformed_lines == {i \in DOMAIN listing.lines : line_result(i).kind = "raise"}

\* C21: a malformed data line of a listing is dropped and parsing continues:
\* the parser returns, and every line of the listing that parses to a record
\* has its record in the result.
C21_ParseAnomaliesLocal ==
    (parser_called /\ header_complete) =>
        /\ ~parsed.raised
        /\ \A i \in DOMAIN listing.lines :
              line_result(i).kind = "info" => line_result(i).info \in parsed.info

\* a listing with a malformed line next to one that parses to a record
C21_MalformedBesideRecord ==
    /\ parser_called
    /\ header_complete
    /\ malformed_lines # {}
    /\ \E i \in DOMAIN listing.lines : line_result(i).kind = "info"

\* without a malformed line every record is returned
C21_WellFormedListings ==
    (parser_called /\ header_complete /\ malformed_lines = {}) =>
        /\ ~parsed.raised
        /\ \A i \in DOMAIN listing.lines :
              line_result(i).kind = "info" => line_result(i).info \in parsed.info

----------------------------------------------------------------------------
(* The license data, server by server.                                     *)

licenses_data_called == script = "licenses_data" /\ pc = "done"

\* the servers whose probe fails: the tool exits non-zero, or the license
\* type is not supported
failed_probes ==
    {e \in DOMAIN all_extern_data :
        all_extern_data[e].license_type # FLEXLM \/ probe[e].ec # 0}

\* C22: when the probe of a license server fails, licenses_data completes,
\* every configured software of that server is marked skip, and the entries
\* of the other servers are what their own probe gives.
C22_ProbeErrorsSkip ==
    (licenses_data_called /\ failed_probes # {}) =>
        /\ exit_code = "ok"
        /\ \A e \in DOMAIN all_extern_data : \A soft \in DOMAIN all_extern_data[e].software :
              /\ license_key(soft, e) \in DOMAIN licenses
              /\ e \in failed_probes => licenses[license_key(soft, e)].skip
              /\ e \notin failed_probes =>
                    licenses[license_key(soft, e)] =
                        license_entry(all_extern_data, probe, e, soft)

----------------------------------------------------------------------------
(* The snapshots of the license sync.                                      *)

\* C23: update_licenses and update_license_reservations leave the desired
\* state unchanged, every license record keeping exactly its keys and values,
\* and leave the observed resources and reservations unchanged.
C23_SnapshotsUnchanged ==
    [][sync_slurm_external_licenses_main => UNCHANGED <<licenses, resources, scontrol>>]_vars

----------------------------------------------------------------------------
(* The institute reconciler of sync.py, institute by institute.            *)

\* C24: for each cluster and each institute of the host institute's table,
\* slurm_institute_accounts emits an add-account command for the institute
\* (Parent=root) iff it has no account on the cluster, and one for its
\* default VO (Parent the institute) iff that has no account on the cluster;
\* the institute's add comes before its default VO's add; no command of the
\* institute reconciler is a removal.
C24_InstituteAccounts ==
    user_accounts_called =>
        /\ \A c \in Range(out["institutes"]) : is_add_account(c) /\ ~is_removal(c)
        /\ \A cl \in Range(clusters) : \A pair \in Range(INSTITUTE_VOS_BY_INSTITUTE(GENT)) :
              LET inst_adds == account_commands(out["institutes"], "add", pair[1], cl)
                  vo_adds == account_commands(out["institutes"], "add", pair[2], cl)
              IN /\ inst_adds # {} <=> pair[1] \notin observed_accounts(cl)
                 /\ vo_adds # {} <=> pair[2] \notin observed_accounts(cl)
                 /\ \A i \in inst_adds : out["institutes"][i].parent = "root"
                 /\ \A j \in vo_adds : out["institutes"][j].parent = pair[1]
                 /\ \A i \in inst_adds : \A j \in vo_adds : i < j

\* on one cluster the host institute and its default VO are both missing and
\* both added
C24_Witness ==
    /\ user_accounts_called
    /\ \E cl \in Range(clusters) :
          /\ "gent" \notin observed_accounts(cl) /\ "gvo00012" \notin observed_accounts(cl)
          /\ account_commands(out["institutes"], "add", "gent", cl) # {}
          /\ account_commands(out["institutes"], "add", "gvo00012", cl) # {}

----------------------------------------------------------------------------
(* Account lines and association lines of a sacctmgr listing.              *)

\* the field of the i-th data line under the column titled name, None when
\* the line is too short
field_of(i, name) ==
    LET n == field_number(listing_header, name)
    IN IF n = 0 \/ n > Len(listing.lines[i]) THEN NoValue ELSE listing.lines[i][n]

\* the record of the i-th data line
record_of(i) ==
    mkNamedTupleInstance(zip_dict(listing_header, listing.lines[i]),
                         IF listing.info_type = "accounts" THEN SacctAccountFields
                         ELSE SacctUserFields)

\* the data lines of an accounts listing that describe an account
account_lines ==
    {i \in DOMAIN listing.lines :
        /\ field_of(i, "user") = ""
        /\ field_of(i, "account") \notin {"root"} \cup listing.exclude}

\* the data lines of a users listing that describe a user
user_lines == {i \in DOMAIN listing.lines : field_of(i, "user") # "root"}

\* C25: parsing an accounts listing returns the records of the data lines
\* whose User field is empty and whose account is neither root nor excluded,
\* and no other record; parsing a users listing returns the records of the
\* data lines whose user is not root, and no other record.
C25_AccountVersusAssociation ==
    (parser_called /\ header_complete /\ listing.info_type \in {"accounts", "users"}) =>
        /\ ~parsed.raised
        /\ listing.info_type = "accounts" => parsed.info = {record_of(i) : i \in account_lines}
        /\ listing.info_type = "users" => parsed.info = {record_of(i) : i \in user_lines}

\* the same for the listings in which every data line can be parsed
C25_WellFormedListings ==
    (parser_called /\ header_complete /\ listing.info_type \in {"accounts", "users"}
       /\ malformed_lines = {}) =>
        /\ ~parsed.raised
        /\ listing.info_type = "accounts" => parsed.info = {record_of(i) : i \in account_lines}
        /\ listing.info_type = "users" => parsed.info = {record_of(i) : i \in user_lines}

----------------------------------------------------------------------------
(* The execution of a plan.                                                *)

\* C26: execute_commands runs the commands of the plan one at a time in plan
\* order; once a command has exited non-zero the run has ended in failure and
\* no later command of the plan is executed.
C26_AbortOnFirstFailure ==
    [][/\ n_executed' > n_executed =>
             /\ n_executed' = n_executed + 1
             /\ n_executed < Len(plan)
             /\ plan' = plan
       /\ (exit_code # "critical" /\ exit_code' = "critical") => pc' = "done"
       /\ exit_code = "critical" =>
             /\ n_executed' = n_executed
             /\ exit_code' = "critical"
             /\ pc' = "done"]_vars

\* the project sync has ended in failure after a command in the middle of its
\* plan, the commands after it not executed
C26_Witness ==
    /\ script = "projects"
    /\ pc = "done"
    /\ exit_code = "critical"
    /\ n_executed > 1
    /\ n_executed < Len(plan)

----------------------------------------------------------------------------
(* The default account of a user.                                          *)

\* the positions of seq that set the DefaultAccount of the user on the
\* cluster: an add-user with DefaultAccount or a modify-user
default_account_settings(seq, user, cluster) ==
    {i \in DOMAIN seq :
        /\ seq[i].entity = "user" /\ seq[i].verb \in {"add", "modify"}
        /\ seq[i].user = user /\ seq[i].cluster = cluster
        /\ seq[i].default_account # ""}

\* C27: in a plan returned by slurm_user_accounts, for every user and every
\* cluster at most one command sets the user's DefaultAccount on the cluster,
\* also when the user is a member of more than one VO.
C27_OneDefaultAccount ==
    (user_accounts_called /\ exit_code = "ok") =>
        \A cl \in Range(clusters) : \A u \in UserNames :
            Cardinality(default_account_settings(out["commands"], u, cl)) <= 1

\* the same for the users that are a member of at most one VO
C27_OneVoUsers ==
    (user_accounts_called /\ exit_code = "ok") =>
        \A cl \in Range(clusters) : \A u \in UserNames :
            Cardinality({i \in DOMAIN account_page_vos : u \in account_page_vos[i].members}) <= 1
                => Cardinality(default_account_settings(out["commands"], u, cl)) <= 1

----------------------------------------------------------------------------
(* The namespace of a cluster's QoS.                                       *)

\* the clusters being reconciled of which name is a QoS <cluster>-<name>
qos_owners(name) == {cl \in Range(clusters) : name \in qos_of_cluster(cl)}

\* C28: slurm_project_qos returns a remove-QoS command only for a QoS
\* <cluster>-<name> of a cluster being reconciled, and only while reconciling
\* that cluster: the QoS is no desired QoS of that cluster and is removed at
\* most once; a QoS of another cluster whose name has the cluster's name as a
\* string prefix is not removed.
C28_QosRemovalNamespace ==
    projects_reconciled =>
        \A c \in Range(out["qos"]) :
            c.verb = "remove" =>
                /\ qos_owners(c.qos) # {}
                /\ \A cl \in qos_owners(c.qos) : c.qos \notin desired_qos(cl)
                /\ Cardinality(qos_commands(out["qos"], "remove", c.qos))
                       <= Cardinality(qos_owners(c.qos))

----------------------------------------------------------------------------
(* Ignored and unmanaged license entities.                                 *)

\* the commands the license reconcilers have returned
license_commands ==
    Range(out["sacct_new_update"] \o out["sacct_remove"]
          \o out["scontrol_new_update"] \o out["scontrol_remove"] \o plan)

\* the resource the command targets is ignored, or observed with a type
\* other than License
unmanaged_resource(c) ==
    \/ c.name \in opts.ignore_resources
    \/ \E r \in resources : r.Name = c.name /\ r.Server = c.server /\ r.Type # "License"

\* the reservation the command targets is ignored, has no external_license_
\* prefix, or is observed without licenses
unmanaged_reservation(c) ==
    \/ c.reservation \in opts.ignore_reservations
    \/ Head(c.reservation) # "external_license_"
    \/ \E r \in scontrol.reservations : r.ReservationName = c.reservation /\ r.Licenses = ""

\* C29: no command of the license plan targets a resource whose name is in
\* ignore_resources or whose type is not License, nor a reservation that is
\* in ignore_reservations, lacks the external_license_ prefix or holds no
\* licenses, whether or not the desired configuration names it.
C29_IgnoredNeverTouched ==
    script = "licenses" =>
        \A c \in license_commands :
            /\ c.entity = "resource" => ~unmanaged_resource(c)
            /\ c.entity = "reservation" => ~unmanaged_reservation(c)

\* the same for the entities the desired configuration does not name
C29_IgnoredNotDesired ==
    script = "licenses" =>
        \A c \in license_commands :
            /\ (c.entity = "resource" /\ license_key(c.name, c.server) \notin desired_licenses)
                  => ~unmanaged_resource(c)
            /\ (c.entity = "reservation"
                  /\ c.reservation \notin {reservation_name_of(k) : k \in desired_licenses})
                  => ~unmanaged_reservation(c)

----------------------------------------------------------------------------
(* The user diff sets of slurm_user_accounts.                              *)

\* the positions of seq that add the user to an account on the cluster
user_adds(seq, user, cluster) ==
    {i \in DOMAIN seq :
        /\ seq[i].verb = "add" /\ seq[i].entity = "user"
        /\ seq[i].user = user /\ seq[i].cluster = cluster}

\* the positions of seq that remove an association of the user to an account
\* on the cluster: the user is moved
association_removals(seq, user, cluster) ==
    {i \in DOMAIN seq :
        /\ seq[i].verb = "delete" /\ seq[i].entity = "user"
        /\ seq[i].user = user /\ seq[i].cluster = cluster /\ seq[i].account # ""}

\* C30: in a plan returned by slurm_user_accounts, on each cluster no user has
\* both an add-user command and a whole-cluster remove-user command, no moved
\* user has a whole-cluster remove-user command, and a moved user is added to
\* an account other than the one whose association is removed.
C30_UserDiffSets ==
    (user_accounts_called /\ exit_code = "ok") =>
        \A cl \in Range(clusters) : \A u \in UserNames :
            LET cmds == out["commands"]
                adds == user_adds(cmds, u, cl)
                moves == association_removals(cmds, u, cl)
                removals == user_removals(cmds, u, cl)
            IN /\ adds = {} \/ removals = {}
               /\ moves = {} \/ removals = {}
               /\ moves # {} =>
                     /\ adds # {}
                     /\ \A i \in adds : \A j \in moves : cmds[i].account # cmds[j].account

\* a plan that moves one user and removes another from the same cluster
C30_Witness ==
    /\ user_accounts_called
    /\ exit_code = "ok"
    /\ \E cl \in Range(clusters) : \E u, w \in UserNames :
          /\ u # w
          /\ association_removals(out["commands"], u, cl) # {}
          /\ user_adds(out["commands"], u, cl) # {}
          /\ user_removals(out["commands"], w, cl) # {}

====
